---- MODULE Spec2Model ----
(***************************************************************************)
(* The document/state engine of the lexical package: node identity and     *)
(* tree linkage, the copy-on-write protocol (getWritable), dirty tracking  *)
(* and the per-node NodeState, as a state machine over a heap of node      *)
(* objects and a heap of NodeState objects.                                *)
(*                                                                         *)
(* Objects have identity: a node object is an index into `objects`, a      *)
(* NodeState object an index into `stateObjects`.  Every function of the   *)
(* source that can throw is an operator from a "world" record (the mutable *)
(* program state plus err/ret) to a world record; `Then` sequences them    *)
(* the way a thrown invariant unwinds the call stack.                      *)
(***************************************************************************)
EXTENDS Integers, Sequences, FiniteSets, TLC

VARIABLES
    devBuild,            \* __DEV__ : validation build or production build
    objects,             \* heap of LexicalNode objects (index = identity)
    stateObjects,        \* heap of NodeState objects (index = identity)
    sharedConfigMap,     \* node type -> (key name -> StateConfig)
    flatKeys,            \* node type -> the key names serialized flat
    prevNodeMap,         \* _nodeMap of the last committed EditorState
    nodeMap,             \* _nodeMap of the active EditorState
    selection,           \* _selection of the active EditorState
    dirtyElements,       \* editor._dirtyElements : key -> intentionally dirty
    dirtyLeaves,         \* editor._dirtyLeaves
    cloneNotNeeded,      \* editor._cloneNotNeeded
    keyCounter,          \* LexicalUtils keyCounter
    pendingNodeToClone,  \* LexicalUtils pendingNodeToClone (object or 0)
    activeEditor,        \* LexicalUpdates activeEditor
    activeEditorState,   \* the active EditorState ("pending", "committed") or NULL
    isReadOnlyMode,      \* LexicalUpdates isReadOnlyMode
    result               \* what the last operation was, threw and returned

vars == <<devBuild, objects, stateObjects, sharedConfigMap, flatKeys, prevNodeMap, nodeMap,
          selection, dirtyElements, dirtyLeaves, cloneNotNeeded, keyCounter,
          pendingNodeToClone, activeEditor, activeEditorState, isReadOnlyMode,
          result>>

(***************************************************************************)
(* Bounds of the model.                                                    *)
(***************************************************************************)
MaxKeyCounter == 2
MaxObjects == 3
MaxStateObjects == 2
MaxStateNodes == 1
MaxTreeObjects == 4
MaxPromoteNodes == 2
MaxPromoteObjects == 4
MaxPromoteStates == 3

NULL == "null"
OK == "ok"

(***************************************************************************)
(* Small helpers on finite maps.                                           *)
(***************************************************************************)
EmptyMap == [x \in {} |-> TRUE]

Put(m, k, v) == [x \in (DOMAIN m) \cup {k} |-> IF x = k THEN v ELSE m[x]]

Remove(m, k) == [x \in (DOMAIN m) \ {k} |-> m[x]]

Range(m) == {m[x] : x \in DOMAIN m}

Min(S) == CHOOSE x \in S : \A y \in S : x <= y

Max(S) == CHOOSE x \in S : \A y \in S : y <= x

\* The heaps: a freed slot is reused by the next allocation.
IsFree(rec) == rec.klass = "free"

NextSlot(heap) ==
    IF \E i \in 1..Len(heap) : IsFree(heap[i])
    THEN Min({i \in 1..Len(heap) : IsFree(heap[i])})
    ELSE Len(heap) + 1

Store(heap, i, rec) ==
    IF i <= Len(heap) THEN [heap EXCEPT ![i] = rec] ELSE Append(heap, rec)

Digits == <<"0", "1", "2", "3", "4", "5", "6", "7", "8", "9">>

\* '' + n
RECURSIVE KeyString(_)
KeyString(n) ==
    IF n < 10 THEN Digits[n + 1]
    ELSE KeyString(n \div 10) \o Digits[(n % 10) + 1]

(***************************************************************************)
(* The node classes.  RootNode and TextNode are the classes of the source; *)
(* ParagraphNode stands for a concrete element class that declares its     *)
(* type through $config and so gets the registry's default clone;          *)
(* NoKeyCloneNode and NoSuperNode are the two faulty leaf classes the      *)
(* validation checks of $cloneWithProperties are written against: a clone  *)
(* that does not pass the key on, and an afterCloneFrom override that does *)
(* not call super.  ReloadedTextNode is the TextNode class as a reloaded    *)
(* module defines it again: another constructor of the same name and type, *)
(* which the editor has not registered.  UnregisteredNode is a leaf class   *)
(* whose type the editor has not registered at all.                        *)
(***************************************************************************)
Klasses ==
    {"RootNode", "TextNode", "ParagraphNode", "NoKeyCloneNode", "NoSuperNode",
     "ReloadedTextNode", "UnregisteredNode"}

\* constructor.name
constructorName(klass) ==
    IF klass = "ReloadedTextNode" THEN "TextNode" ELSE klass

getType(klass) ==
    CASE klass = "RootNode" -> "root"
      [] klass = "TextNode" -> "text"
      [] klass = "ReloadedTextNode" -> "text"
      [] klass = "UnregisteredNode" -> "unregistered"
      [] klass = "ParagraphNode" -> "paragraph"
      [] klass = "NoKeyCloneNode" -> "nokey"
      [] klass = "NoSuperNode" -> "nosuper"

NodeTypes == {getType(k) : k \in Klasses}

isElementKlass(klass) == klass \in {"RootNode", "ParagraphNode"}

\* editor._nodes : type -> registered class
RegisteredNodes ==
    [t \in NodeTypes \ {"unregistered"} |->
        CHOOSE k \in Klasses \ {"ReloadedTextNode"} : getType(k) = t]

getRegisteredNode(type) ==
    IF type \in DOMAIN RegisteredNodes THEN RegisteredNodes[type] ELSE NULL

Texts == {"", "a"}

ExplicitKeys == {"root"} \cup {KeyString(i) : i \in 1..MaxKeyCounter}

(***************************************************************************)
(* The world record and the threading of errors.                           *)
(***************************************************************************)
World ==
    [objects |-> objects, stateObjects |-> stateObjects,
     sharedConfigMap |-> sharedConfigMap, nodeMap |-> nodeMap,
     selection |-> selection, dirtyElements |-> dirtyElements,
     dirtyLeaves |-> dirtyLeaves, cloneNotNeeded |-> cloneNotNeeded,
     keyCounter |-> keyCounter, pendingNodeToClone |-> pendingNodeToClone,
     err |-> OK, ret |-> 0]

Throw(W, e) == [W EXCEPT !.err = e]

Return(W, v) == [W EXCEPT !.ret = v]

Then(W, F(_)) == IF W.err # OK THEN W ELSE F(W)

(***************************************************************************)
(* LexicalUpdates                                                          *)
(***************************************************************************)
getActiveEditor(W) ==
    IF activeEditor = NULL THEN Throw(W, "noActiveEditor") ELSE W

\* errorOnReadOnly with the test of the flag left out
errorOnReadOnlyOff(W) == W

errorOnReadOnly(W) ==
    IF isReadOnlyMode THEN Throw(W, "readOnly") ELSE W

getActiveEditorState(W) ==
    IF activeEditorState = NULL THEN Throw(W, "noActiveEditor") ELSE W

internalGetActiveEditorState == activeEditorState

errorOnInfiniteTransforms(W) == W

(***************************************************************************)
(* LexicalSelection                                                        *)
(***************************************************************************)
NoSelection == [isNull |-> TRUE, cachedNodes |-> NULL]

setCachedNodes(sel, nodes) == [sel EXCEPT !.cachedNodes = nodes]

(***************************************************************************)
(* LexicalNodeState: StateConfig                                           *)
(***************************************************************************)
StateConfigs == {"cfgX1", "cfgX2", "cfgY"}

StateKeys == {"x", "y"}

RawValues == {"a", "b"}

UNDEFINED == "undefined"

\* the StateConfig a node type declares: key 'lang', parse passes a value
\* through and defaults to 'en'
DeclaredConfigs == {"cfgLang"}

configKey(cfg) ==
    IF cfg = "cfgY" THEN "y" ELSE IF cfg = "cfgLang" THEN "lang" ELSE "x"

\* each config's parse, from JSON to the value type
parse(cfg, v) ==
    CASE cfg = "cfgX1" -> IF v \in {"a", "b"} THEN v ELSE "a"
      [] cfg = "cfgX2" -> IF v = "a" THEN "A" ELSE IF v = "b" THEN "B" ELSE "A"
      [] cfg = "cfgY" -> IF v = "b" THEN "b" ELSE "dflt"
      [] cfg = "cfgLang" -> IF v = "undefined" THEN "en" ELSE v

\* each config's unparse, from the value type back to JSON (coerceToJSON
\* unless the config brings its own)
unparse(cfg, v) ==
    CASE cfg = "cfgX2" -> IF v = "B" THEN "b" ELSE "a"
      [] OTHER -> v

\* each config's isEqual: Object.is
isEqual(cfg, a, b) == a = b

defaultValue(cfg) == parse(cfg, UNDEFINED)

(***************************************************************************)
(* LexicalNodeState: NodeState                                             *)
(***************************************************************************)
NoUnknownState == [defined |-> FALSE, rec |-> EmptyMap]

\* a slot of the NodeState heap that holds no object
FreeState ==
    [klass |-> "free", node |-> 0, sharedNodeState |-> "free", unknownState |-> NoUnknownState,
     knownState |-> EmptyMap, size |-> 0]

UnknownRecord(rec) == [defined |-> TRUE, rec |-> rec]

computeSize(configMap, unknownState, knownState) ==
    Cardinality(DOMAIN knownState) +
    (IF unknownState.defined
     THEN Cardinality({k \in DOMAIN unknownState.rec :
                          \/ k \notin DOMAIN configMap
                          \/ configMap[k] \notin DOMAIN knownState})
     ELSE 0)

\* The keys of the unknown record that the shared config map recognizes and
\* that are not yet known; a Map keeps one entry per StateConfig object.
PromotedKeys(configMap, knownState, unknownState) ==
    IF unknownState.defined
    THEN {k \in DOMAIN unknownState.rec :
             k \in DOMAIN configMap /\ configMap[k] \notin DOMAIN knownState}
    ELSE {}

\* parseAndPruneNextUnknownState, the part that fills nextKnownState
parseNextKnownState(configMap, knownState, unknownState) ==
    LET promoted == PromotedKeys(configMap, knownState, unknownState)
        cfgs == {configMap[k] : k \in promoted}
    IN  [c \in (DOMAIN knownState) \cup cfgs |->
            IF c \in DOMAIN knownState THEN knownState[c]
            ELSE parse(c, unknownState.rec[configKey(c)])]

\* parseAndPruneNextUnknownState, the record it returns
parseAndPruneNextUnknownState(configMap, unknownState) ==
    LET rest == IF unknownState.defined
                THEN {k \in DOMAIN unknownState.rec : k \notin DOMAIN configMap}
                ELSE {}
    IN  IF rest = {} THEN NoUnknownState
        ELSE UnknownRecord([k \in rest |-> unknownState.rec[k]])

undefinedIfEmpty(unknownState) ==
    IF unknownState.defined /\ DOMAIN unknownState.rec # {} THEN unknownState
    ELSE NoUnknownState

\* new NodeState(node, sharedNodeState, unknownState, knownState, size);
\* size = -1 stands for the omitted argument
NewNodeState(W, node, type, unknownState, knownState, size) ==
    LET configMap == W.sharedConfigMap[type]
        computedSize == IF size # -1 THEN size
                        ELSE computeSize(configMap, unknownState, knownState)
        s == [klass |-> "NodeState", node |-> node, sharedNodeState |-> type,
              unknownState |-> unknownState, knownState |-> knownState,
              size |-> computedSize]
    IN  IF devBuild /\ ~(size = -1 \/ computedSize = size)
        THEN Throw(W, "stateSizeMismatch")
        ELSE IF devBuild /\ \E c \in DOMAIN knownState : configKey(c) \notin DOMAIN configMap
        THEN Throw(W, "stateConfigMissing")
        ELSE [W EXCEPT !.stateObjects = Store(@, NextSlot(@), s),
                       !.ret = NextSlot(W.stateObjects)]

\* NodeState.getWritable that hands the state out without the copy
NodeStateGetWritableShared(W, st, node) == Return(W, st)

\* NodeState.getWritable with the test of the bound node left out
NodeStateGetWritableAlwaysCopy(W, st, node) ==
    LET this == W.stateObjects[st]
        configMap == W.sharedConfigMap[this.sharedNodeState]
    IN  NewNodeState(W, node, this.sharedNodeState,
            parseAndPruneNextUnknownState(configMap, this.unknownState),
            parseNextKnownState(configMap, this.knownState, this.unknownState),
            this.size)

\* NodeState.getWritable(node)
NodeStateGetWritable(W, st, node) ==
    LET this == W.stateObjects[st]
        configMap == W.sharedConfigMap[this.sharedNodeState]
    IN  IF this.node = node THEN Return(W, st)
        ELSE NewNodeState(W, node, this.sharedNodeState,
                 parseAndPruneNextUnknownState(configMap, this.unknownState),
                 parseNextKnownState(configMap, this.knownState, this.unknownState),
                 this.size)

(***************************************************************************)
(* LexicalUtils: keys                                                      *)
(***************************************************************************)
\* generateRandomKey with the increment left out
generateRandomKeyStuck(W) ==
    [W EXCEPT !.ret = KeyString(W.keyCounter)]

generateRandomKey(W) ==
    [W EXCEPT !.keyCounter = @ + 1, !.ret = KeyString(W.keyCounter)]

\* errorOnNodeKeyConstructorMismatch that does not compare the names of
\* the two constructors
errorOnNodeKeyConstructorMismatchOneError(W, node, existingKey, pendingNode) ==
    IF internalGetActiveEditorState = NULL THEN W
    ELSE IF pendingNode # 0 /\ existingKey # W.objects[pendingNode].key
    THEN Throw(W, "cloneKeyMismatch")
    ELSE IF /\ existingKey \in DOMAIN W.nodeMap
            /\ W.objects[W.nodeMap[existingKey]].klass # W.objects[node].klass
    THEN Throw(W, "keyReusedByOtherClass")
    ELSE W

errorOnNodeKeyConstructorMismatch(W, node, existingKey, pendingNode) ==
    IF internalGetActiveEditorState = NULL THEN W
    ELSE IF pendingNode # 0 /\ existingKey # W.objects[pendingNode].key
    THEN Throw(W, "cloneKeyMismatch")
    ELSE IF /\ existingKey \in DOMAIN W.nodeMap
            /\ W.objects[W.nodeMap[existingKey]].klass # W.objects[node].klass
    THEN IF constructorName(W.objects[node].klass) #
                constructorName(W.objects[W.nodeMap[existingKey]].klass)
         THEN Throw(W, "keyReusedByOtherClass")
         ELSE Throw(W, "keyReusedAfterReload")
    ELSE W

\* $setNodeKey that records every new node as a leaf
setNodeKeyAsLeaf(W, node, keyArg) ==
    LET pendingNode == W.pendingNodeToClone
        W0 == [W EXCEPT !.pendingNodeToClone = 0]
        existingKey == IF keyArg # NULL THEN keyArg
                       ELSE IF pendingNode # 0 THEN W.objects[pendingNode].key
                       ELSE NULL
    IN  IF existingKey # NULL
        THEN Then(IF devBuild
                  THEN errorOnNodeKeyConstructorMismatch(W0, node, existingKey, pendingNode)
                  ELSE W0,
                  LAMBDA a : [a EXCEPT !.objects[node].key = existingKey])
        ELSE
        Then(errorOnReadOnly(W0), LAMBDA a :
        Then(errorOnInfiniteTransforms(a), LAMBDA b :
        Then(getActiveEditor(b), LAMBDA c :
        Then(getActiveEditorState(c), LAMBDA d :
            LET e == generateRandomKey(d)
                key == e.ret
            IN  [e EXCEPT
                   !.nodeMap = Put(@, key, node),
                   !.dirtyLeaves = @ \cup {key},
                   !.cloneNotNeeded = @ \cup {key},
                   !.objects[node].key = key]))))

\* getPendingNodeToClone that leaves the staged node in the slot
getPendingNodeToCloneKeep(W) == Return(W, W.pendingNodeToClone)

\* getPendingNodeToClone(): the staged node, or 0 for null; the slot is
\* emptied
getPendingNodeToClone(W) ==
    Return([W EXCEPT !.pendingNodeToClone = 0], W.pendingNodeToClone)

setNodeKey(W, node, keyArg) ==
    LET pendingNode == getPendingNodeToClone(W).ret
        W0 == [getPendingNodeToClone(W) EXCEPT !.ret = W.ret]
        existingKey == IF keyArg # NULL THEN keyArg
                       ELSE IF pendingNode # 0 THEN W.objects[pendingNode].key
                       ELSE NULL
    IN  IF existingKey # NULL
        THEN Then(IF devBuild
                  THEN errorOnNodeKeyConstructorMismatch(W0, node, existingKey, pendingNode)
                  ELSE W0,
                  LAMBDA a : [a EXCEPT !.objects[node].key = existingKey])
        ELSE
        Then(errorOnReadOnly(W0), LAMBDA a :
        Then(errorOnInfiniteTransforms(a), LAMBDA b :
        Then(getActiveEditor(b), LAMBDA c :
        Then(getActiveEditorState(c), LAMBDA d :
            LET e == generateRandomKey(d)
                key == e.ret
            IN  [e EXCEPT
                   !.nodeMap = Put(@, key, node),
                   !.dirtyElements =
                       IF isElementKlass(e.objects[node].klass)
                       THEN Put(@, key, TRUE) ELSE @,
                   !.dirtyLeaves =
                       IF isElementKlass(e.objects[node].klass)
                       THEN @ ELSE @ \cup {key},
                   !.cloneNotNeeded = @ \cup {key},
                   !.objects[node].key = key]))))

(***************************************************************************)
(* LexicalNode: construction                                               *)
(***************************************************************************)
\* the __size of an object that has no such field (a leaf)
NoSize == 0 - 1

NewObject(klass) ==
    [klass |-> klass, type |-> IF klass = "free" THEN "free" ELSE getType(klass), key |-> UNDEFINED,
     parent |-> NULL, prev |-> NULL, next |-> NULL, state |-> 0,
     text |-> UNDEFINED, first |-> UNDEFINED, last |-> UNDEFINED,
     size |-> NoSize]

\* a slot of the node heap that holds no object
FreeObject == [NewObject("free") EXCEPT !.type = "free"]

errorOnTypeKlassMismatch(W, type, klass) ==
    Then(getActiveEditor(W), LAMBDA a :
        IF getRegisteredNode(type) = NULL THEN Throw(a, "notRegistered")
        ELSE IF getRegisteredNode(type) # klass THEN Throw(a, "typeKlassMismatch")
        ELSE a)

\* the root of the empty editor state
EmptyRoot ==
    [NewObject("RootNode") EXCEPT !.key = "root", !.first = NULL, !.last = NULL,
                                  !.size = 0]

\* new klass(..., key): the LexicalNode constructor, then the subclass's
\* own field initialisers.  Returns the new object.
construct(W, klass, keyArg, text) ==
    LET node == NextSlot(W.objects)
        W0 == [W EXCEPT !.objects = Store(@, node, NewObject(klass))]
    IN  Then(setNodeKey(W0, node, IF klass = "RootNode" THEN "root" ELSE keyArg),
        LAMBDA a :
        Then(IF devBuild /\ getType(klass) # "root"
             THEN Then(errorOnReadOnly(a),
                       LAMBDA b : errorOnTypeKlassMismatch(b, getType(klass), klass))
             ELSE a,
        LAMBDA c :
            [c EXCEPT !.objects[node].text =
                          IF klass \in {"TextNode", "ReloadedTextNode"}
                          THEN text ELSE UNDEFINED,
                      !.objects[node].first =
                          IF isElementKlass(klass) THEN NULL ELSE UNDEFINED,
                      !.objects[node].last =
                          IF isElementKlass(klass) THEN NULL ELSE UNDEFINED,
                      !.objects[node].size =
                          IF isElementKlass(klass) THEN 0 ELSE NoSize,
                      !.ret = node]))

(***************************************************************************)
(* LexicalNode: getLatest, dirty marking, clone, getWritable               *)
(***************************************************************************)
getNodeByKey(W, key) ==
    Then(getActiveEditorState(W), LAMBDA a :
        Return(a, IF key \in DOMAIN a.nodeMap THEN a.nodeMap[key] ELSE 0))

\* getLatest that hands the node itself out when its key is absent
getLatestOrSelf(W, node) ==
    Then(getNodeByKey(W, W.objects[node].key), LAMBDA a :
        IF a.ret = 0 THEN Return(a, node) ELSE a)

getLatest(W, node) ==
    Then(getNodeByKey(W, W.objects[node].key), LAMBDA a :
        IF a.ret = 0 THEN Throw(a, "staleNode") ELSE a)

\* internalMarkParentElementsAsDirty that stops only at a key already
\* recorded as an ancestor and records every other key it meets as one
RECURSIVE internalMarkParentElementsAsDirtyOverwrite(_, _, _, _)
internalMarkParentElementsAsDirtyOverwrite(parentKey, map, objs, dirty) ==
    IF parentKey = NULL THEN dirty
    ELSE IF parentKey \in DOMAIN dirty /\ dirty[parentKey] = FALSE THEN dirty
    ELSE IF parentKey \notin DOMAIN map THEN dirty
    ELSE internalMarkParentElementsAsDirtyOverwrite(
             objs[map[parentKey]].parent, map, objs, Put(dirty, parentKey, FALSE))

RECURSIVE internalMarkParentElementsAsDirty(_, _, _, _)
internalMarkParentElementsAsDirty(parentKey, map, objs, dirty) ==
    IF parentKey = NULL THEN dirty
    ELSE IF parentKey \in DOMAIN dirty THEN dirty
    ELSE IF parentKey \notin DOMAIN map THEN dirty
    ELSE internalMarkParentElementsAsDirty(
             objs[map[parentKey]].parent, map, objs, Put(dirty, parentKey, FALSE))

\* internalMarkNodeAsDirty that records a written element the way it
\* records an ancestor
internalMarkNodeAsDirtyAsAncestor(W, node) ==
    Then(errorOnInfiniteTransforms(W), LAMBDA a :
    Then(getLatest(a, node), LAMBDA b :
    Then(getActiveEditorState(b), LAMBDA c :
    Then(getActiveEditor(c), LAMBDA d :
        LET latest == d.objects[d.ret]
            marked == IF latest.parent # NULL
                      THEN internalMarkParentElementsAsDirty(
                               latest.parent, d.nodeMap, d.objects, d.dirtyElements)
                      ELSE d.dirtyElements
        IN  [d EXCEPT
               !.dirtyElements =
                   IF isElementKlass(d.objects[node].klass)
                   THEN Put(marked, latest.key, FALSE) ELSE marked,
               !.dirtyLeaves =
                   IF isElementKlass(d.objects[node].klass)
                   THEN @ ELSE @ \cup {latest.key}]))))

\* internalMarkNodeAsDirty with the $isElementNode test left out: every
\* node is recorded in dirtyElements
internalMarkNodeAsDirtyAsElement(W, node) ==
    Then(errorOnInfiniteTransforms(W), LAMBDA a :
    Then(getLatest(a, node), LAMBDA b :
    Then(getActiveEditorState(b), LAMBDA c :
    Then(getActiveEditor(c), LAMBDA d :
        LET latest == d.objects[d.ret]
            marked == IF latest.parent # NULL
                      THEN internalMarkParentElementsAsDirty(
                               latest.parent, d.nodeMap, d.objects, d.dirtyElements)
                      ELSE d.dirtyElements
        IN  [d EXCEPT !.dirtyElements = Put(marked, latest.key, TRUE)]))))

internalMarkNodeAsDirty(W, node) ==
    Then(errorOnInfiniteTransforms(W), LAMBDA a :
    Then(getLatest(a, node), LAMBDA b :
    Then(getActiveEditorState(b), LAMBDA c :
    Then(getActiveEditor(c), LAMBDA d :
        LET latest == d.objects[d.ret]
            marked == IF latest.parent # NULL
                      THEN internalMarkParentElementsAsDirty(
                               latest.parent, d.nodeMap, d.objects, d.dirtyElements)
                      ELSE d.dirtyElements
        IN  [d EXCEPT
               !.dirtyElements =
                   IF isElementKlass(d.objects[node].klass)
                   THEN Put(marked, latest.key, TRUE) ELSE marked,
               !.dirtyLeaves =
                   IF isElementKlass(d.objects[node].klass)
                   THEN @ ELSE @ \cup {latest.key}]))))

\* clone whose default for a class without a clone of its own constructs
\* the empty instance without staging the original
cloneUnstaged(W, latestNode) ==
    LET prevNode == W.objects[latestNode]
        klass == prevNode.klass
    IN  CASE klass = "TextNode" -> construct(W, klass, prevNode.key, prevNode.text)
          [] klass = "ReloadedTextNode" ->
                 construct(W, klass, prevNode.key, prevNode.text)
          [] klass = "UnregisteredNode" -> construct(W, klass, prevNode.key, UNDEFINED)
          [] klass = "RootNode" -> construct(W, klass, NULL, UNDEFINED)
          [] klass = "ParagraphNode" -> construct(W, klass, NULL, UNDEFINED)
          [] klass = "NoKeyCloneNode" -> construct(W, klass, NULL, UNDEFINED)
          [] klass = "NoSuperNode" -> construct(W, klass, prevNode.key, UNDEFINED)

\* constructor.clone(latestNode) of each class
clone(W, latestNode) ==
    LET prevNode == W.objects[latestNode]
        klass == prevNode.klass
    IN  CASE klass = "TextNode" -> construct(W, klass, prevNode.key, prevNode.text)
          [] klass = "ReloadedTextNode" ->
                 construct(W, klass, prevNode.key, prevNode.text)
          [] klass = "UnregisteredNode" -> construct(W, klass, prevNode.key, UNDEFINED)
          [] klass = "RootNode" -> construct(W, klass, NULL, UNDEFINED)
          [] klass = "ParagraphNode" ->
                 construct([W EXCEPT !.pendingNodeToClone = latestNode],
                           klass, NULL, UNDEFINED)
          [] klass = "NoKeyCloneNode" -> construct(W, klass, NULL, UNDEFINED)
          [] klass = "NoSuperNode" -> construct(W, klass, prevNode.key, UNDEFINED)

\* afterCloneFrom with the copy of the links left out
afterCloneFromNoLinks(W, this, prevNode) ==
    LET prev == W.objects[prevNode]
    IN  IF W.objects[this].klass = "NoSuperNode" THEN W
        ELSE IF W.objects[this].key = prev.key
        THEN [W EXCEPT !.objects[this].state = prev.state]
        ELSE IF prev.state # 0
        THEN Then(NodeStateGetWritable(W, prev.state, this), LAMBDA a :
                 [a EXCEPT !.objects[this].state = a.ret])
        ELSE W

\* afterCloneFrom that hands the NodeState object on whatever the key is
afterCloneFromShareState(W, this, prevNode) ==
    LET prev == W.objects[prevNode]
    IN  IF W.objects[this].klass = "NoSuperNode" THEN W
        ELSE IF W.objects[this].key = prev.key
        THEN [W EXCEPT !.objects[this].parent = prev.parent,
                       !.objects[this].next = prev.next,
                       !.objects[this].prev = prev.prev,
                       !.objects[this].state = prev.state]
        ELSE [W EXCEPT !.objects[this].state = prev.state]

\* LexicalNode.afterCloneFrom; NoSuperNode overrides it and leaves super out
afterCloneFrom(W, this, prevNode) ==
    LET prev == W.objects[prevNode]
    IN  IF W.objects[this].klass = "NoSuperNode" THEN W
        ELSE IF W.objects[this].key = prev.key
        THEN [W EXCEPT !.objects[this].parent = prev.parent,
                       !.objects[this].next = prev.next,
                       !.objects[this].prev = prev.prev,
                       !.objects[this].state = prev.state]
        ELSE IF prev.state # 0
        THEN Then(NodeStateGetWritable(W, prev.state, this), LAMBDA a :
                 [a EXCEPT !.objects[this].state = a.ret])
        ELSE W

cloneWithProperties(W, latestNode) ==
    Then(clone(W, latestNode), LAMBDA a :
        LET mutableNode == a.ret IN
        Then(afterCloneFrom(a, mutableNode, latestNode), LAMBDA b :
            LET m == b.objects[mutableNode]
                l == b.objects[latestNode]
            IN  IF devBuild /\ m.key # l.key
                THEN Throw(b, "cloneKeyMismatch")
                ELSE IF devBuild /\ ~(m.parent = l.parent /\ m.next = l.next
                                       /\ m.prev = l.prev)
                THEN Throw(b, "cloneLinksMismatch")
                ELSE Return(b, mutableNode)))

\* getWritable with the clone left out: the latest node is handed out as is
getWritableInPlace(W, node) ==
    Then(errorOnReadOnly(W), LAMBDA a :
    Then(getActiveEditorState(a), LAMBDA b :
    Then(getActiveEditor(b), LAMBDA c :
    Then(getLatest(c, node), LAMBDA d :
        LET key == d.objects[node].key
            latestNode == d.ret
            e == IF d.selection.isNull THEN d
                 ELSE [d EXCEPT !.selection = setCachedNodes(@, NULL)]
        IN  Then(internalMarkNodeAsDirty(
                     [e EXCEPT !.cloneNotNeeded = @ \cup {key}], latestNode),
                 LAMBDA f : Return(f, latestNode))))))

\* getWritable with the cloneNotNeeded test left out: every call clones
getWritableAlwaysClone(W, node) ==
    Then(errorOnReadOnly(W), LAMBDA a :
    Then(getActiveEditorState(a), LAMBDA b :
    Then(getActiveEditor(b), LAMBDA c :
    Then(getLatest(c, node), LAMBDA d :
        LET key == d.objects[node].key
            latestNode == d.ret
            e == IF d.selection.isNull THEN d
                 ELSE [d EXCEPT !.selection = setCachedNodes(@, NULL)]
        IN  Then(cloneWithProperties(e, latestNode), LAMBDA f :
                LET mutableNode == f.ret IN
                Then(internalMarkNodeAsDirty(
                         [f EXCEPT !.cloneNotNeeded = @ \cup {key}], mutableNode),
                LAMBDA g :
                    [g EXCEPT !.nodeMap = Put(@, key, mutableNode),
                              !.ret = mutableNode]))))))

\* getWritable that clones the object it is called on, not the latest one
getWritableOfReceiver(W, node) ==
    Then(errorOnReadOnly(W), LAMBDA a :
    Then(getActiveEditorState(a), LAMBDA b :
    Then(getActiveEditor(b), LAMBDA c :
    Then(getLatest(c, node), LAMBDA d :
        LET key == d.objects[node].key
            latestNode == d.ret
            e == IF d.selection.isNull THEN d
                 ELSE [d EXCEPT !.selection = setCachedNodes(@, NULL)]
        IN  IF key \in e.cloneNotNeeded
            THEN Then(internalMarkNodeAsDirty(e, latestNode),
                      LAMBDA f : Return(f, latestNode))
            ELSE
            Then(cloneWithProperties(e, node), LAMBDA f :
                LET mutableNode == f.ret IN
                Then(internalMarkNodeAsDirty(
                         [f EXCEPT !.cloneNotNeeded = @ \cup {key}], mutableNode),
                LAMBDA g :
                    [g EXCEPT !.nodeMap = Put(@, key, mutableNode),
                              !.ret = mutableNode]))))))

\* getWritable that leaves the selection's cache alone when the node needs
\* no clone
getWritableKeepCache(W, node) ==
    Then(errorOnReadOnly(W), LAMBDA a :
    Then(getActiveEditorState(a), LAMBDA b :
    Then(getActiveEditor(b), LAMBDA c :
    Then(getLatest(c, node), LAMBDA d :
        LET key == d.objects[node].key
            latestNode == d.ret
            e == IF d.selection.isNull THEN d
                 ELSE [d EXCEPT !.selection = setCachedNodes(@, NULL)]
        IN  IF key \in d.cloneNotNeeded
            THEN Then(internalMarkNodeAsDirty(d, latestNode),
                      LAMBDA f : Return(f, latestNode))
            ELSE
            Then(cloneWithProperties(e, latestNode), LAMBDA f :
                LET mutableNode == f.ret IN
                Then(internalMarkNodeAsDirty(
                         [f EXCEPT !.cloneNotNeeded = @ \cup {key}], mutableNode),
                LAMBDA g :
                    [g EXCEPT !.nodeMap = Put(@, key, mutableNode),
                              !.ret = mutableNode]))))))

getWritable(W, node) ==
    Then(errorOnReadOnly(W), LAMBDA a :
    Then(getActiveEditorState(a), LAMBDA b :
    Then(getActiveEditor(b), LAMBDA c :
    Then(getLatest(c, node), LAMBDA d :
        LET key == d.objects[node].key
            latestNode == d.ret
            e == IF d.selection.isNull THEN d
                 ELSE [d EXCEPT !.selection = setCachedNodes(@, NULL)]
        IN  IF key \in e.cloneNotNeeded
            THEN Then(internalMarkNodeAsDirty(e, latestNode),
                      LAMBDA f : Return(f, latestNode))
            ELSE
            Then(cloneWithProperties(e, latestNode), LAMBDA f :
                LET mutableNode == f.ret IN
                Then(internalMarkNodeAsDirty(
                         [f EXCEPT !.cloneNotNeeded = @ \cup {key}], mutableNode),
                LAMBDA g :
                    [g EXCEPT !.nodeMap = Put(@, key, mutableNode),
                              !.ret = mutableNode]))))))

(***************************************************************************)
(* LexicalNodeState: updates and $getWritableNodeState                     *)
(***************************************************************************)
\* updateFromKnown with the registration in the shared config map left out
updateFromKnownUnregistered(W, st, stateConfig, value) ==
    LET this == W.stateObjects[st]
        key == configKey(stateConfig)
        absent == ~(\/ stateConfig \in DOMAIN this.knownState
                    \/ (this.unknownState.defined /\ key \in DOMAIN this.unknownState.rec))
        pruned == IF this.unknownState.defined
                  THEN undefinedIfEmpty(UnknownRecord(Remove(this.unknownState.rec, key)))
                  ELSE this.unknownState
    IN  [W EXCEPT
           !.stateObjects[st].unknownState = IF absent THEN pruned ELSE @,
           !.stateObjects[st].size = IF absent THEN @ + 1 ELSE @,
           !.stateObjects[st].knownState = Put(@, stateConfig, value)]

updateFromKnown(W, st, stateConfig, value) ==
    LET this == W.stateObjects[st]
        key == configKey(stateConfig)
        absent == ~(\/ stateConfig \in DOMAIN this.knownState
                    \/ (this.unknownState.defined /\ key \in DOMAIN this.unknownState.rec))
        pruned == IF this.unknownState.defined
                  THEN undefinedIfEmpty(UnknownRecord(Remove(this.unknownState.rec, key)))
                  ELSE this.unknownState
    IN  [W EXCEPT
           !.sharedConfigMap[this.sharedNodeState] = Put(@, key, stateConfig),
           !.stateObjects[st].unknownState = IF absent THEN pruned ELSE @,
           !.stateObjects[st].size = IF absent THEN @ + 1 ELSE @,
           !.stateObjects[st].knownState = Put(@, stateConfig, value)]

\* updateFromUnknown with the lookup of the key name left out: every entry
\* is kept as unknown
updateFromUnknownRaw(W, st, k, v) ==
    LET this == W.stateObjects[st]
        rec == IF this.unknownState.defined THEN this.unknownState.rec ELSE EmptyMap
    IN  [W EXCEPT
           !.stateObjects[st].size = IF k \in DOMAIN rec THEN @ ELSE @ + 1,
           !.stateObjects[st].unknownState = UnknownRecord(Put(rec, k, v))]

updateFromUnknown(W, st, k, v) ==
    LET this == W.stateObjects[st]
        configMap == W.sharedConfigMap[this.sharedNodeState]
        rec == IF this.unknownState.defined THEN this.unknownState.rec ELSE EmptyMap
    IN  IF k \in DOMAIN configMap
        THEN updateFromKnown(W, st, configMap[k], parse(configMap[k], v))
        ELSE [W EXCEPT
                !.stateObjects[st].size = IF k \in DOMAIN rec THEN @ ELSE @ + 1,
                !.stateObjects[st].unknownState = UnknownRecord(Put(rec, k, v))]

\* the loop of updateFromJSON over Object.entries(unknownState)
RECURSIVE updateFromEntries(_, _, _, _)
updateFromEntries(W, st, rec, keys) ==
    IF keys = {} THEN W
    ELSE LET k == CHOOSE x \in keys : TRUE
         IN  updateFromEntries(updateFromUnknown(W, st, k, rec[k]), st, rec, keys \ {k})

updateFromJSON(W, st, unknownState) ==
    LET this == W.stateObjects[st]
        W0 == [W EXCEPT
                 !.stateObjects[st].knownState =
                     [c \in DOMAIN this.knownState |-> defaultValue(c)],
                 !.stateObjects[st].size = Cardinality(DOMAIN this.knownState),
                 !.stateObjects[st].unknownState = NoUnknownState]
    IN  IF unknownState.defined
        THEN updateFromEntries(W0, st, unknownState.rec, DOMAIN unknownState.rec)
        ELSE W0

getRegisteredNodeOrThrow(W, type) ==
    IF getRegisteredNode(type) = NULL THEN Throw(W, "notRegistered") ELSE W

\* $getSharedNodeState: the shared state is named by the node type it belongs to
getSharedNodeState(W, node) ==
    IF W.objects[node].state # 0
    THEN Return(W, W.stateObjects[W.objects[node].state].sharedNodeState)
    ELSE Then(getActiveEditor(W), LAMBDA a :
         Then(getRegisteredNodeOrThrow(a, a.objects[node].type), LAMBDA b :
             Return(b, b.objects[node].type)))

getWritableNodeState(W, node) ==
    Then(getWritable(W, node), LAMBDA a :
        LET writable == a.ret IN
        Then(IF a.objects[writable].state # 0
             THEN NodeStateGetWritable(a, a.objects[writable].state, writable)
             ELSE Then(getSharedNodeState(a, writable), LAMBDA b :
                      NewNodeState(b, writable, b.ret, NoUnknownState, EmptyMap, -1)),
        LAMBDA c : [c EXCEPT !.objects[writable].state = c.ret]))

\* a serialized node, as far as state goes: the record under NODE_STATE_KEY
\* and the top-level properties that are not the node's own fields
Serialized(state, flat) == [state |-> state, flat |-> flat]

\* $updateStateFromJSON(node, serialized)
updateStateFromJSON(W, node, serialized) ==
    Then(getWritable(W, node), LAMBDA a :
        LET writable == a.ret IN
        Then(getSharedNodeState(a, writable), LAMBDA b :
            LET unknownState == serialized.state
                present == {k \in flatKeys[b.ret] : k \in DOMAIN serialized.flat}
                base == IF unknownState.defined THEN unknownState.rec ELSE EmptyMap
                parseState ==
                    IF present = {} THEN unknownState
                    ELSE UnknownRecord([k \in (DOMAIN base) \cup present |->
                             IF k \in present THEN serialized.flat[k] ELSE base[k]])
            IN  IF b.objects[writable].state # 0 \/ parseState.defined
                THEN Then(getWritableNodeState(b, node), LAMBDA c :
                         Return(updateFromJSON(c, c.ret, parseState), writable))
                ELSE Return(b, writable)))

\* $getState(node, stateConfig): the known value, else the parsed unknown
\* entry of the key name, else the default value
getState(W, node, stateConfig) ==
    LET st == W.objects[node].state
        s == W.stateObjects[st]
        key == configKey(stateConfig)
    IN  IF st = 0 THEN defaultValue(stateConfig)
        ELSE IF stateConfig \in DOMAIN s.knownState THEN s.knownState[stateConfig]
        ELSE IF s.unknownState.defined /\ key \in DOMAIN s.unknownState.rec
        THEN parse(stateConfig, s.unknownState.rec[key])
        ELSE defaultValue(stateConfig)

\* NodeState.toJSON for one order of the knownState entries: every known
\* StateConfig writes unparse(value) under its key name, or removes the key
\* name when the value is its default; winner[k] is the StateConfig of key
\* name k that comes last
toJSONWith(s, winner) ==
    LET unknown == IF s.unknownState.defined THEN s.unknownState.rec ELSE EmptyMap
        omitted == {k \in DOMAIN winner :
                       isEqual(winner[k], s.knownState[winner[k]],
                               defaultValue(winner[k]))}
        written == (DOMAIN winner) \ omitted
    IN  [k \in ((DOMAIN unknown) \ omitted) \cup written |->
            IF k \in written THEN unparse(winner[k], s.knownState[winner[k]])
            ELSE unknown[k]]

\* the records NodeState.toJSON can give, one for each order of the
\* StateConfigs that share a key name
toJSON(s) ==
    LET names == {configKey(c) : c \in DOMAIN s.knownState}
        winners == {w \in [names -> DOMAIN s.knownState] :
                       \A k \in names : configKey(w[k]) = k}
    IN  {toJSONWith(s, w) : w \in winners}

\* the serialized forms of a node's state: flat key names at the top level
\* of the envelope, the others under NODE_STATE_KEY, which is left out
\* when nothing is under it
exportJSON(W, node) ==
    LET n == W.objects[node]
        records == IF n.state = 0 THEN {EmptyMap} ELSE toJSON(W.stateObjects[n.state])
        flat == flatKeys[n.type]
    IN  {Serialized(
             IF (DOMAIN r) \ flat = {} THEN NoUnknownState
             ELSE UnknownRecord([k \in (DOMAIN r) \ flat |-> r[k]]),
             [k \in (DOMAIN r) \cap flat |-> r[k]]) : r \in records}

(***************************************************************************)
(* The end of an operation.  Objects nobody can reach any more (not in the *)
(* active or the committed NodeMap, not the reference just returned) are   *)
(* garbage: their slot is freed.                                           *)
(***************************************************************************)
Trim(heap, free) ==
    LET used == {i \in 1..Len(heap) : ~IsFree(heap[i])}
    IN  IF used = {} THEN <<>> ELSE SubSeq(heap, 1, Max(used))

\* what is reachable from the node objects liveO and the NodeState objects
\* liveS: a node keeps its __state alive, a NodeState the node it is bound to
RECURSIVE Reachable(_, _, _, _)
Reachable(objs, sts, liveO, liveS) ==
    LET nextS == liveS \cup ({objs[i].state : i \in liveO} \ {0})
        nextO == liveO \cup {sts[st].node : st \in nextS}
    IN  IF nextS = liveS /\ nextO = liveO THEN [o |-> liveO, s |-> liveS]
        ELSE Reachable(objs, sts, nextO, nextS)

\* the heaps with every slot outside live freed
Sweep(objs, sts, live) ==
    [objects |-> Trim([i \in 1..Len(objs) |->
                          IF i \in live.o THEN objs[i] ELSE FreeObject], FreeObject),
     stateObjects |-> Trim([i \in 1..Len(sts) |->
                          IF i \in live.s THEN sts[i] ELSE FreeState], FreeState)]

LiveStates(W, retKind) ==
    IF retKind = "state" /\ W.err = OK THEN {W.ret} ELSE {}

LiveObjects(W, retKind) ==
    LET mapped == Range(W.nodeMap) \cup Range(prevNodeMap)
                  \cup ({W.pendingNodeToClone} \ {0})
        returned == IF retKind = "node" /\ W.err = OK THEN {W.ret} ELSE {}
    IN  mapped \cup returned

Collect(W, retKind) ==
    LET live == Reachable(W.objects, W.stateObjects,
                          LiveObjects(W, retKind), LiveStates(W, retKind))
        swept == Sweep(W.objects, W.stateObjects, live)
    IN  [W EXCEPT !.objects = swept.objects,
                  !.stateObjects = swept.stateObjects]

\* the program state after an operation that ended in world W, for heaps of
\* at most maxObjects node objects and maxStates NodeState objects
FinishWithin(W, op, retKind, maxObjects, maxStates) ==
    \E C \in {Collect(W, retKind)} :
    /\ Len(C.objects) <= maxObjects
    /\ Len(C.stateObjects) <= maxStates
    /\ C.keyCounter <= MaxKeyCounter + 1
    /\ objects' = C.objects
    /\ stateObjects' = C.stateObjects
    /\ sharedConfigMap' = C.sharedConfigMap
    /\ nodeMap' = C.nodeMap
    /\ selection' = C.selection
    /\ dirtyElements' = C.dirtyElements
    /\ dirtyLeaves' = C.dirtyLeaves
    /\ cloneNotNeeded' = C.cloneNotNeeded
    /\ keyCounter' = C.keyCounter
    /\ pendingNodeToClone' = C.pendingNodeToClone
    /\ result' = [op |-> op, err |-> C.err,
                  ret |-> IF C.err = OK THEN C.ret ELSE 0]
    /\ UNCHANGED <<devBuild, flatKeys, prevNodeMap, activeEditor, activeEditorState,
                   isReadOnlyMode>>

Finish(W, op, retKind) == FinishWithin(W, op, retKind, MaxObjects, MaxStateObjects)

(***************************************************************************)
(* The transaction runner (editor.update, editorState.read, commit)        *)
(***************************************************************************)
\* editor.update(): the pending state starts as a copy of the committed
\* NodeMap and the editor's scratch sets are reset
BeginUpdateOf(selections) ==
    /\ activeEditor = NULL
    /\ activeEditorState = NULL
    /\ activeEditor' = "editor"
    /\ activeEditorState' = "pending"
    /\ isReadOnlyMode' = FALSE
    /\ nodeMap' = prevNodeMap
    /\ \E hasSelection \in selections :
           selection' = [isNull |-> ~hasSelection, cachedNodes |-> NULL]
    /\ dirtyElements' = EmptyMap
    /\ dirtyLeaves' = {}
    /\ cloneNotNeeded' = {}
    /\ result' = [op |-> "beginUpdate", err |-> OK, ret |-> 0]
    /\ UNCHANGED <<devBuild, stateObjects, sharedConfigMap, flatKeys, prevNodeMap,
                   keyCounter, pendingNodeToClone, objects>>

BeginUpdate == BeginUpdateOf(BOOLEAN)

\* editor.read(): the committed state, read-only
BeginRead ==
    /\ activeEditor = NULL
    /\ activeEditorState = NULL
    /\ activeEditor' = "editor"
    /\ activeEditorState' = "committed"
    /\ isReadOnlyMode' = TRUE
    /\ nodeMap' = prevNodeMap
    /\ \E hasSelection \in BOOLEAN :
           selection' = [isNull |-> ~hasSelection, cachedNodes |-> NULL]
    /\ result' = [op |-> "beginRead", err |-> OK, ret |-> 0]
    /\ UNCHANGED <<devBuild, objects, stateObjects, sharedConfigMap, flatKeys,
                   prevNodeMap, dirtyElements, dirtyLeaves, cloneNotNeeded,
                   keyCounter, pendingNodeToClone>>

\* the callback returns: a pending state becomes the committed one
Commit ==
    /\ activeEditorState # NULL
    /\ activeEditor' = NULL
    /\ activeEditorState' = NULL
    /\ isReadOnlyMode' = FALSE
    /\ prevNodeMap' = nodeMap
    /\ cloneNotNeeded' = {}
    /\ dirtyElements' = EmptyMap
    /\ dirtyLeaves' = {}
    /\ selection' = NoSelection
    /\ \E swept \in {Sweep(objects, stateObjects,
                            Reachable(objects, stateObjects, Range(nodeMap), {}))} :
           /\ objects' = swept.objects
           /\ stateObjects' = swept.stateObjects
    /\ result' = [op |-> "commit", err |-> OK, ret |-> 0]
    /\ UNCHANGED <<devBuild, sharedConfigMap, flatKeys, nodeMap, keyCounter,
                   pendingNodeToClone>>

(***************************************************************************)
(* The operations a caller performs                                        *)
(***************************************************************************)
Objects == {i \in 1..Len(objects) : ~IsFree(objects[i])}

StateObjects == {i \in 1..Len(stateObjects) : ~IsFree(stateObjects[i])}

\* new klass(text, key): RootNode's constructor takes no key
ConstructOf(klasses, keyArgs, texts) ==
    \E klass \in klasses, keyArg \in keyArgs, text \in texts :
        /\ klass = "RootNode" => keyArg = NULL
        /\ klass # "TextNode" => text = ""
        /\ keyArg # NULL => text = ""
        /\ \E R \in {construct(World, klass, keyArg, text)} :
               Finish(R, "construct", "node")

Construct ==
    ConstructOf({"RootNode", "TextNode", "ParagraphNode"}, ExplicitKeys \cup {NULL}, Texts)

GetWritable ==
    \E node \in Objects :
        \E R \in {getWritable(World, node)} : Finish(R, "getWritable", "node")

GetLatest ==
    \E node \in Objects :
        \E R \in {getLatest(World, node)} : Finish(R, "getLatest", "node")

\* a node the running update may write to: what getWritable() returned in it
IsWritable(node) ==
    /\ activeEditorState = "pending"
    /\ objects[node].key \in DOMAIN nodeMap
    /\ nodeMap[objects[node].key] = node
    /\ objects[node].key \in cloneNotNeeded

\* the keys reached by following parent keys from key in the NodeMap
RECURSIVE AncestorsFrom(_, _, _, _)
AncestorsFrom(key, map, objs, seen) ==
    IF key = NULL \/ key \in seen \/ key \notin DOMAIN map THEN seen
    ELSE AncestorsFrom(objs[map[key]].parent, map, objs, seen \cup {key})

Ancestors(key, map, objs) ==
    IF key \in DOMAIN map
    THEN AncestorsFrom(objs[map[key]].parent, map, objs, {})
    ELSE {}

\* writable.__parent = parentKey, for an element of the NodeMap that is not
\* below the node
SetParent ==
    \E node \in Objects, parentKey \in ExplicitKeys \cup {NULL} :
        /\ IsWritable(node)
        /\ parentKey # NULL =>
               /\ parentKey \in DOMAIN nodeMap
               /\ isElementKlass(objects[nodeMap[parentKey]].klass)
               /\ parentKey # objects[node].key
               /\ objects[node].key \notin Ancestors(parentKey, nodeMap, objects)
        /\ objects[node].klass # "RootNode"
        /\ Finish([World EXCEPT !.objects[node].parent = parentKey],
                  "setParent", "none")

\* writable.__text = text
SetText ==
    \E node \in Objects, text \in Texts :
        /\ IsWritable(node)
        /\ objects[node].klass = "TextNode"
        /\ Finish([World EXCEPT !.objects[node].text = text], "setText", "none")

\* selection.getNodes() caches its result on the selection
CacheNodes ==
    /\ activeEditorState # NULL
    /\ ~selection.isNull
    /\ selection.cachedNodes = NULL
    /\ Finish([World EXCEPT !.selection = setCachedNodes(@, "nodes")],
              "cacheNodes", "none")

GetWritableNodeStateOf(klasses) ==
    \E node \in {n \in Objects : objects[n].klass \in klasses} :
        \E R \in {getWritableNodeState(World, node)} :
            Finish(R, "getWritableNodeState", "state")

\* $getWritableNodeState(node).updateFromKnown(stateConfig, value)
setState(W, node, stateConfig, value) ==
    Then(getWritableNodeState(W, node), LAMBDA a :
        updateFromKnown(a, a.ret, stateConfig, value))

\* $getWritableNodeState(node).updateFromUnknown(k, v)
setUnknownState(W, node, k, v) ==
    Then(getWritableNodeState(W, node), LAMBDA a :
        updateFromUnknown(a, a.ret, k, v))

\* $getWritableNodeState(node).updateFromJSON(unknownState)
setStateFromJSON(W, node, unknownState) ==
    Then(getWritableNodeState(W, node), LAMBDA a :
        updateFromJSON(a, a.ret, unknownState))

NodesOf(klasses) == {n \in Objects : objects[n].klass \in klasses}

UpdateFromKnownOf(klasses, cfgs, raws) ==
    \E node \in NodesOf(klasses), cfg \in cfgs :
        \E value \in {parse(cfg, v) : v \in raws} :
            \E R \in {setState(World, node, cfg, value)} :
                Finish(R, "updateFromKnown", "none")

UpdateFromUnknownOf(klasses, keys, raws) ==
    \E node \in NodesOf(klasses), k \in keys, v \in raws :
        \E R \in {setUnknownState(World, node, k, v)} :
            Finish(R, "updateFromUnknown", "none")

JSONRecords(keys, raws) ==
    {NoUnknownState} \cup
    {UnknownRecord(r) : r \in UNION {[ks -> raws] : ks \in SUBSET keys}}

UpdateFromJSONOf(klasses, keys, raws) ==
    \E node \in NodesOf(klasses), rec \in JSONRecords(keys, raws) :
        \E R \in {setStateFromJSON(World, node, rec)} :
            Finish(R, "updateFromJSON", "none")

(***************************************************************************)
(* The specification                                                       *)
(***************************************************************************)
Init ==
    /\ devBuild \in BOOLEAN
    /\ objects = <<EmptyRoot>>
    /\ stateObjects = <<>>
    /\ sharedConfigMap = [t \in NodeTypes |-> EmptyMap]
    /\ flatKeys = [t \in NodeTypes |-> {}]
    /\ prevNodeMap = [k \in {"root"} |-> 1]
    /\ nodeMap = [k \in {"root"} |-> 1]
    /\ selection = NoSelection
    /\ dirtyElements = EmptyMap
    /\ dirtyLeaves = {}
    /\ cloneNotNeeded = {}
    /\ keyCounter = 1
    /\ pendingNodeToClone = 0
    /\ activeEditor = NULL
    /\ activeEditorState = NULL
    /\ isReadOnlyMode = FALSE
    /\ result = [op |-> "init", err |-> OK, ret |-> 0]

Next ==
    \/ BeginUpdate
    \/ BeginRead
    \/ Commit
    \/ Construct
    \/ GetWritable
    \/ GetLatest
    \/ SetParent
    \/ SetText
    \/ CacheNodes

Spec == Init /\ [][Next]_vars

(***************************************************************************)
(* The specification of the NodeState operations: text nodes that carry a  *)
(* NodeState, written through $getWritableNodeState and the update methods *)
(***************************************************************************)
BeginStateUpdate == BeginUpdateOf({FALSE})

\* new TextNode(), for the first MaxStateNodes text nodes
ConstructText ==
    /\ keyCounter <= MaxStateNodes
    /\ ConstructOf({"TextNode"}, {NULL}, {""})

GetWritableNodeState == GetWritableNodeStateOf({"TextNode"})

UpdateFromKnown == UpdateFromKnownOf({"TextNode"}, {"cfgX1", "cfgX2"}, {"a"})

UpdateFromUnknown == UpdateFromUnknownOf({"TextNode"}, StateKeys, {"a"})

UpdateFromJSON == UpdateFromJSONOf({"TextNode"}, StateKeys, {"a"})

NextState ==
    \/ BeginStateUpdate
    \/ Commit
    \/ ConstructText
    \/ GetWritable
    \/ GetWritableNodeState
    \/ UpdateFromKnown
    \/ UpdateFromUnknown
    \/ UpdateFromJSON

\* the validation build: every check of the production build and the __DEV__ ones
InitState == Init /\ devBuild = TRUE

SpecState == InitState /\ [][NextState]_vars

(***************************************************************************)
(* The specification of cloning: the classes of the source and the two     *)
(* faulty ones, linked under elements and made writable                    *)
(***************************************************************************)
ConstructAny ==
    ConstructOf({"TextNode", "ParagraphNode", "NoKeyCloneNode", "NoSuperNode"},
                {NULL}, {""})

NextClone ==
    \/ BeginStateUpdate
    \/ Commit
    \/ ConstructAny
    \/ GetWritable
    \/ SetParent

SpecClone == Init /\ [][NextClone]_vars

(***************************************************************************)
(* The specification of key adoption: nodes of the registered classes and  *)
(* of the reloaded text class, constructed with and without an explicit    *)
(* key inside updates and reads, and cloned by getWritable                 *)
(***************************************************************************)
KeysConstruct ==
    ConstructOf({"TextNode", "ReloadedTextNode", "ParagraphNode"},
                ExplicitKeys \cup {NULL}, {""})

NextKeys ==
    \/ BeginStateUpdate
    \/ BeginRead
    \/ Commit
    \/ KeysConstruct
    \/ GetWritable

SpecKeys == Init /\ [][NextKeys]_vars

(***************************************************************************)
(* The specification of parent links: nodes constructed with and without   *)
(* an explicit key, a node with an explicit key not being in the NodeMap,  *)
(* and writable nodes linked under the key of any element at hand          *)
(***************************************************************************)
LinksConstruct ==
    ConstructOf({"TextNode", "ParagraphNode"}, ExplicitKeys \cup {NULL}, {""})

\* writable.__parent = element.__key, for any element object at hand that
\* is not below the node
LinksSetParent ==
    \E node \in Objects, element \in Objects :
        /\ IsWritable(node)
        /\ objects[node].klass # "RootNode"
        /\ isElementKlass(objects[element].klass)
        /\ objects[element].key # UNDEFINED
        /\ objects[element].key # objects[node].key
        /\ objects[node].key \notin Ancestors(objects[element].key, nodeMap, objects)
        /\ Finish([World EXCEPT !.objects[node].parent = objects[element].key],
                  "setParent", "none")

NextLinks ==
    \/ BeginStateUpdate
    \/ Commit
    \/ LinksConstruct
    \/ GetWritable
    \/ LinksSetParent

SpecLinks == Init /\ [][NextLinks]_vars

(***************************************************************************)
(* The specification of the selection cache: updates with and without a    *)
(* selection, whose node list is cached between writes to a text node and  *)
(* to the root                                                             *)
(***************************************************************************)
NextCache ==
    \/ BeginUpdate
    \/ Commit
    \/ ConstructText
    \/ CacheNodes
    \/ GetWritable
    \/ GetWritableNodeState

SpecCache == Init /\ [][NextCache]_vars

(***************************************************************************)
(* The specification of import and export: a text type that declares the   *)
(* state key 'lang' (flat or nested), nodes whose state is imported from a *)
(* serialized node, written with StateConfigs registered at run time,      *)
(* copied by $getWritableNodeState and exported and imported again         *)
(***************************************************************************)
\* the serialized nodes imported: no state; 'lang' and an undeclared key
\* under NODE_STATE_KEY; 'lang' at the top level; a key that a StateConfig
\* registered later recognizes
Envelopes ==
    {Serialized(NoUnknownState, EmptyMap),
     Serialized(UnknownRecord([k \in {"lang", "mystery"} |->
                                  IF k = "lang" THEN "fr" ELSE "42"]), EmptyMap),
     Serialized(UnknownRecord([k \in {"mystery"} |-> "42"]),
                [k \in {"lang"} |-> "fr"]),
     Serialized(UnknownRecord([k \in {"x"} |-> "b"]), EmptyMap)}

\* $updateStateFromJSON(node, serialized)
UpdateStateFromJSON ==
    \E node \in NodesOf({"TextNode"}), serialized \in Envelopes :
        \E R \in {updateStateFromJSON(World, node, serialized)} :
            Finish(R, "updateStateFromJSON", "node")

\* $updateStateFromJSON(node, the node's own export)
Reimport ==
    \E node \in NodesOf({"TextNode"}) :
        /\ activeEditorState = "pending"
        /\ objects[node].key \in DOMAIN nodeMap
        /\ \E serialized \in exportJSON(World, nodeMap[objects[node].key]) :
               \E R \in {updateStateFromJSON(World, node, serialized)} :
                   Finish(R, "reimport", "node")

\* $getWritableNodeState(node).updateFromKnown(stateConfig, value) with a
\* StateConfig of key name 'x'
ImportSetState ==
    \E node \in NodesOf({"TextNode"}), cfg \in {"cfgX1", "cfgX2"} :
        \E R \in {setState(World, node, cfg, parse(cfg, "b"))} :
            Finish(R, "updateFromKnown", "none")

\* the editor after the text type was registered with its declared
\* StateConfig, flat or not
InitImport ==
    /\ devBuild = TRUE
    /\ objects = <<EmptyRoot>>
    /\ stateObjects = <<>>
    /\ sharedConfigMap = [t \in NodeTypes |->
                              IF t = "text" THEN [k \in {"lang"} |-> "cfgLang"]
                              ELSE EmptyMap]
    /\ flatKeys \in {[t \in NodeTypes |-> IF t = "text" THEN f ELSE {}] :
                         f \in {{}, {"lang"}}}
    /\ prevNodeMap = [k \in {"root"} |-> 1]
    /\ nodeMap = [k \in {"root"} |-> 1]
    /\ selection = NoSelection
    /\ dirtyElements = EmptyMap
    /\ dirtyLeaves = {}
    /\ cloneNotNeeded = {}
    /\ keyCounter = 1
    /\ pendingNodeToClone = 0
    /\ activeEditor = NULL
    /\ activeEditorState = NULL
    /\ isReadOnlyMode = FALSE
    /\ result = [op |-> "init", err |-> OK, ret |-> 0]

NextImport ==
    \/ BeginStateUpdate
    \/ Commit
    \/ ConstructText
    \/ UpdateStateFromJSON
    \/ Reimport
    \/ GetWritableNodeState
    \/ ImportSetState

SpecImport == InitImport /\ [][NextImport]_vars

(***************************************************************************)
(* The specification of promotion: two text nodes, so that a key name in   *)
(* the unknownState of one becomes recognized through a StateConfig that   *)
(* a write to the other registers                                          *)
(***************************************************************************)
FinishPromote(W, op, retKind) ==
    FinishWithin(W, op, retKind, MaxPromoteObjects, MaxPromoteStates)

\* new TextNode(), for the first MaxPromoteNodes text nodes
PromoteConstructText ==
    /\ keyCounter <= MaxPromoteNodes
    /\ \E R \in {construct(World, "TextNode", NULL, "")} :
           FinishPromote(R, "construct", "node")

PromoteGetWritableNodeState ==
    \E node \in NodesOf({"TextNode"}) :
        \E R \in {getWritableNodeState(World, node)} :
            FinishPromote(R, "getWritableNodeState", "state")

\* $getWritableNodeState(node).updateFromKnown(cfgX1, 'b')
PromoteUpdateFromKnown ==
    \E node \in NodesOf({"TextNode"}) :
        \E R \in {setState(World, node, "cfgX1", parse("cfgX1", "b"))} :
            FinishPromote(R, "updateFromKnown", "none")

\* $getWritableNodeState(node).updateFromUnknown('x', 'b')
PromoteUpdateFromUnknown ==
    \E node \in NodesOf({"TextNode"}) :
        \E R \in {setUnknownState(World, node, "x", "b")} :
            FinishPromote(R, "updateFromUnknown", "none")

\* $getWritableNodeState(node).updateFromJSON({x: 'b'})
PromoteUpdateFromJSON ==
    \E node \in NodesOf({"TextNode"}) :
        \E R \in {setStateFromJSON(World, node,
                                    UnknownRecord([k \in {"x"} |-> "b"]))} :
            FinishPromote(R, "updateFromJSON", "none")

NextPromote ==
    \/ BeginStateUpdate
    \/ Commit
    \/ PromoteConstructText
    \/ PromoteGetWritableNodeState
    \/ PromoteUpdateFromKnown
    \/ PromoteUpdateFromUnknown
    \/ PromoteUpdateFromJSON

SpecPromote == InitState /\ [][NextPromote]_vars

(***************************************************************************)
(* The specification of tree building: elements and leaves constructed in  *)
(* an update and linked by writes to writable nodes (the parent key of the *)
(* child, the child fields of the element)                                 *)
(***************************************************************************)
FinishTree(W, op, retKind) ==
    FinishWithin(W, op, retKind, MaxTreeObjects, MaxStateObjects)

\* the one update of the scenario
BeginTreeUpdate == keyCounter = 1 /\ BeginStateUpdate

\* new RootNode(), and new ParagraphNode() followed by new TextNode()
TreeConstruct ==
    \E klass \in {"RootNode", "ParagraphNode", "TextNode"} :
        /\ klass = "ParagraphNode" => keyCounter = 1
        /\ klass = "TextNode" => keyCounter = 2
        /\ \E R \in {construct(World, klass, NULL, "")} :
               FinishTree(R, "construct", "node")

TreeGetWritable ==
    \E node \in Objects :
        \E R \in {getWritable(World, node)} : FinishTree(R, "getWritable", "node")

\* writable.__parent = parentKey
TreeSetParent ==
    \E node \in Objects, parentKey \in ExplicitKeys \cup {NULL} :
        /\ IsWritable(node)
        /\ parentKey # NULL =>
               /\ parentKey \in DOMAIN nodeMap
               /\ isElementKlass(objects[nodeMap[parentKey]].klass)
               /\ parentKey # objects[node].key
               /\ objects[node].key \notin Ancestors(parentKey, nodeMap, objects)
        /\ objects[node].klass # "RootNode"
        /\ FinishTree([World EXCEPT !.objects[node].parent = parentKey],
                      "setParent", "none")

\* the keys of the nodes of the NodeMap whose parent key is key
ChildrenOf(key) == {k \in DOMAIN nodeMap : objects[nodeMap[k]].parent = key}

\* writable.__first, writable.__last and writable.__size, set to the
\* children the element has
TreeSetChildren ==
    \E node \in Objects :
        /\ IsWritable(node)
        /\ isElementKlass(objects[node].klass)
        /\ LET children == ChildrenOf(objects[node].key)
           IN  \E first \in children \cup {NULL}, last \in children \cup {NULL} :
                   /\ children = {} => (first = NULL /\ last = NULL)
                   /\ children # {} => (first # NULL /\ last # NULL)
                   /\ Cardinality(children) = 1 => first = last
                   /\ Cardinality(children) > 1 => first # last
                   /\ FinishTree([World EXCEPT
                                      !.objects[node].first = first,
                                      !.objects[node].last = last,
                                      !.objects[node].size = Cardinality(children)],
                                  "setChildren", "none")

NextTree ==
    \/ BeginTreeUpdate
    \/ Commit
    \/ TreeConstruct
    \/ TreeGetWritable
    \/ TreeSetParent
    \/ TreeSetChildren

SpecTree == InitState /\ [][NextTree]_vars

(***************************************************************************)
(* The specification of structure: an element and a text node constructed  *)
(* in the first update, linked under the root as siblings, given a         *)
(* NodeState, committed and made writable again in later updates           *)
(***************************************************************************)
\* new ParagraphNode() followed by new TextNode()
StructConstruct ==
    \E klass \in {"ParagraphNode", "TextNode"} :
        /\ klass = "ParagraphNode" => keyCounter = 1
        /\ klass = "TextNode" => keyCounter = 2
        /\ \E R \in {construct(World, klass, NULL, "a")} :
               FinishTree(R, "construct", "node")

\* the first update, and later ones once both nodes exist
BeginStructUpdate == keyCounter \in {1, 3} /\ BeginStateUpdate

\* writable.__parent = 'root' with writable.__next = the text node's key
\* (the element) or writable.__prev = the element's key (the text node)
StructSetLinks ==
    \E node \in Objects :
        /\ IsWritable(node)
        /\ objects[node].klass # "RootNode"
        /\ {"1", "2"} \subseteq DOMAIN nodeMap
        /\ FinishTree([World EXCEPT
                           !.objects[node].parent = "root",
                           !.objects[node].prev =
                               IF objects[node].key = "2" THEN "1" ELSE NULL,
                           !.objects[node].next =
                               IF objects[node].key = "1" THEN "2" ELSE NULL],
                      "setLinks", "none")

StructGetWritableNodeState ==
    \E node \in NodesOf({"ParagraphNode"}) :
        \E R \in {getWritableNodeState(World, node)} :
            FinishTree(R, "getWritableNodeState", "state")

NextStructure ==
    \/ BeginStructUpdate
    \/ Commit
    \/ StructConstruct
    \/ TreeGetWritable
    \/ StructSetLinks
    \/ TreeSetChildren
    \/ StructGetWritableNodeState

SpecStructure == Init /\ [][NextStructure]_vars

(***************************************************************************)
(* The specification of the upward walk: getWritable() run one loop         *)
(* iteration of internalMarkParentElementsAsDirty at a time, over parent    *)
(* keys written freely (to a missing key, to the node's own key, in a       *)
(* cycle).  While the walk runs, result is the frame of the call: the node  *)
(* getWritable() will return, the key it was called under, whether the node *)
(* is a clone still to be put into the NodeMap, and nextParentKey.          *)
(***************************************************************************)
Walking == result.op = "internalMarkParentElementsAsDirty"

\* new ParagraphNode(), then new ParagraphNode() or new TextNode()
WalkConstruct ==
    /\ ~Walking
    /\ keyCounter <= MaxKeyCounter
    /\ \E klass \in {"ParagraphNode", "TextNode"} :
           /\ klass = "TextNode" => keyCounter = MaxKeyCounter
           /\ \E R \in {construct(World, klass, NULL, "")} :
                  FinishTree(R, "construct", "node")

\* writable.__parent = parentKey, for any key or null, while the tree is
\* built (before the first commit of a node)
WalkSetParent ==
    /\ ~Walking
    /\ DOMAIN prevNodeMap = {"root"}
    /\ \E node \in Objects, parentKey \in ExplicitKeys \cup {NULL} :
           /\ IsWritable(node)
           /\ objects[node].parent # parentKey
           /\ FinishTree([World EXCEPT !.objects[node].parent = parentKey],
                         "setParent", "none")

WalkBeginUpdate == ~Walking /\ BeginStateUpdate

\* the update that builds the tree is committed; the one after it is
\* followed to its last call
WalkCommit == ~Walking /\ DOMAIN prevNodeMap = {"root"} /\ Commit

\* getWritable() up to its call of internalMarkNodeAsDirty: ret is the node
\* to mark and to return, the latest node or its clone
getWritableUntilMark(W, node) ==
    Then(errorOnReadOnly(W), LAMBDA a :
    Then(getActiveEditorState(a), LAMBDA b :
    Then(getActiveEditor(b), LAMBDA c :
    Then(getLatest(c, node), LAMBDA d :
        LET key == d.objects[node].key
            latestNode == d.ret
            e == IF d.selection.isNull THEN d
                 ELSE [d EXCEPT !.selection = setCachedNodes(@, NULL)]
        IN  IF key \in e.cloneNotNeeded
            THEN Return(e, latestNode)
            ELSE Then(cloneWithProperties(e, latestNode), LAMBDA f :
                     Return([f EXCEPT !.cloneNotNeeded = @ \cup {key}], f.ret))))))

\* getWritable() enters internalMarkNodeAsDirty, which resolves the latest
\* version of the node to mark and starts the walk at its parent key; a
\* getWritable() that throws before that ends here
WalkBegin ==
    /\ ~Walking
    /\ \E node \in Objects :
       \E R \in {getWritableUntilMark(World, node)} :
           IF R.err # OK
           THEN FinishTree(R, "getWritable", "node")
           ELSE \E M \in {getLatest(errorOnInfiniteTransforms(R), R.ret)} :
                IF M.err # OK
                THEN FinishTree(M, "getWritable", "node")
                ELSE /\ Len(R.objects) <= MaxTreeObjects
                     /\ objects' = R.objects
                     /\ stateObjects' = R.stateObjects
                     /\ sharedConfigMap' = R.sharedConfigMap
                     /\ nodeMap' = R.nodeMap
                     /\ selection' = R.selection
                     /\ dirtyElements' = R.dirtyElements
                     /\ dirtyLeaves' = R.dirtyLeaves
                     /\ cloneNotNeeded' = R.cloneNotNeeded
                     /\ keyCounter' = R.keyCounter
                     /\ pendingNodeToClone' = R.pendingNodeToClone
                     /\ result' = [op |-> "internalMarkParentElementsAsDirty",
                                   err |-> OK, ret |-> R.ret,
                                   key |-> objects[node].key,
                                   cloned |-> R.ret \notin Objects,
                                   latestKey |-> R.objects[M.ret].key,
                                   nextParentKey |-> R.objects[M.ret].parent]
                     /\ UNCHANGED <<devBuild, flatKeys, prevNodeMap, activeEditor,
                                    activeEditorState, isReadOnlyMode>>

\* the walk is over: nextParentKey is null, is already in dirtyElements
\* (return) or is not in the NodeMap (break)
WalkStops ==
    \/ result.nextParentKey = NULL
    \/ result.nextParentKey \in DOMAIN dirtyElements
    \/ result.nextParentKey \notin DOMAIN nodeMap

\* a loop iteration that stops only at null or at a missing key
WalkStepNoShortCircuit ==
    /\ Walking
    /\ result.nextParentKey # NULL
    /\ result.nextParentKey \in DOMAIN nodeMap
    /\ dirtyElements' = Put(dirtyElements, result.nextParentKey, FALSE)
    /\ result' = [result EXCEPT
                     !.nextParentKey = objects[nodeMap[result.nextParentKey]].parent]
    /\ UNCHANGED <<devBuild, objects, stateObjects, sharedConfigMap, flatKeys,
                   prevNodeMap, nodeMap, selection, dirtyLeaves, cloneNotNeeded,
                   keyCounter, pendingNodeToClone, activeEditor, activeEditorState,
                   isReadOnlyMode>>

\* one iteration of the loop of internalMarkParentElementsAsDirty that goes
\* on: dirtyElements.set(nextParentKey, false); nextParentKey = node.__parent
WalkStep ==
    /\ Walking
    /\ ~WalkStops
    /\ dirtyElements' = Put(dirtyElements, result.nextParentKey, FALSE)
    /\ result' = [result EXCEPT
                     !.nextParentKey = objects[nodeMap[result.nextParentKey]].parent]
    /\ UNCHANGED <<devBuild, objects, stateObjects, sharedConfigMap, flatKeys,
                   prevNodeMap, nodeMap, selection, dirtyLeaves, cloneNotNeeded,
                   keyCounter, pendingNodeToClone, activeEditor, activeEditorState,
                   isReadOnlyMode>>

\* the loop is left; internalMarkNodeAsDirty records the node's own key,
\* getWritable() puts a clone into the NodeMap and returns
WalkEnd ==
    /\ Walking
    /\ WalkStops
    /\ LET element == isElementKlass(objects[result.ret].klass)
           R == [World EXCEPT
                    !.dirtyElements =
                        IF element THEN Put(@, result.latestKey, TRUE) ELSE @,
                    !.dirtyLeaves =
                        IF element THEN @ ELSE @ \cup {result.latestKey},
                    !.nodeMap =
                        IF result.cloned THEN Put(@, result.key, result.ret) ELSE @,
                    !.ret = result.ret]
       IN  FinishTree(R, "getWritable", "node")

NextWalk ==
    \/ WalkBeginUpdate
    \/ WalkCommit
    \/ WalkConstruct
    \/ WalkSetParent
    \/ WalkBegin
    \/ WalkStep
    \/ WalkEnd

SpecWalk == InitState /\ [][NextWalk]_vars

\* the loop is synchronous: an iteration that can run does run
SpecWalkFair == SpecWalk /\ WF_vars(WalkStep)

(***************************************************************************)
(* The specification of the post-clone hook: text nodes, whose clone keeps  *)
(* the key, and nodes of a class whose clone passes no key, both carrying a *)
(* NodeState with known and unknown keys                                    *)
(***************************************************************************)
HookKlasses == {"TextNode", "NoKeyCloneNode"}

\* the nodes are built, linked and given state in updates that come
\* before the first commit of a node
Building == DOMAIN prevNodeMap = {"root"}

\* new NoKeyCloneNode(), then new NoKeyCloneNode() or new TextNode()
HookConstruct ==
    /\ Building
    /\ keyCounter <= MaxPromoteNodes
    /\ \E klass \in HookKlasses :
           /\ klass = "TextNode" => keyCounter = MaxPromoteNodes
           /\ \E R \in {construct(World, klass, NULL, "")} :
                  FinishPromote(R, "construct", "node")

HookGetWritable ==
    \E node \in Objects :
        \E R \in {getWritable(World, node)} : FinishPromote(R, "getWritable", "node")

\* writable.__parent = 'root'
HookSetParent ==
    /\ Building
    /\ \E node \in NodesOf(HookKlasses) :
           /\ IsWritable(node)
           /\ objects[node].parent = NULL
           /\ FinishPromote([World EXCEPT !.objects[node].parent = "root"],
                            "setParent", "none")

\* $getWritableNodeState(node).updateFromKnown(cfgX1, 'b')
HookUpdateFromKnown ==
    /\ Building
    /\ \E node \in NodesOf(HookKlasses) :
           \E R \in {setState(World, node, "cfgX1", parse("cfgX1", "b"))} :
               FinishPromote(R, "updateFromKnown", "none")

\* $getWritableNodeState(node).updateFromUnknown('x', 'b')
HookUpdateFromUnknown ==
    /\ Building
    /\ \E node \in NodesOf(HookKlasses) :
           \E R \in {setUnknownState(World, node, "x", "b")} :
               FinishPromote(R, "updateFromUnknown", "none")

\* the update that builds the nodes is committed; the one after it is
\* followed to its last call
HookCommit == Building /\ Commit

NextHook ==
    \/ BeginStateUpdate
    \/ HookCommit
    \/ HookConstruct
    \/ HookGetWritable
    \/ HookSetParent
    \/ HookUpdateFromKnown
    \/ HookUpdateFromUnknown

SpecHook == Init /\ [][NextHook]_vars

(***************************************************************************)
(* Plain records with identity.  In this part the NodeState heap also      *)
(* holds the plain objects the state code handles: the serialized node a   *)
(* caller passes in (klass "SerializedNode": its top-level properties and  *)
(* the reference under NODE_STATE_KEY) and the UnknownStateRecord objects  *)
(* (klass "Record").  The unknownState of a NodeState is a reference, 0    *)
(* for undefined, so that a write through one holder of a record shows in  *)
(* every other holder.                                                     *)
(***************************************************************************)
MaxEnvelopeObjects == 6

\* {...rec}, or {} for the empty map: a new plain object
NewRecord(W, rec) ==
    [W EXCEPT !.stateObjects = Store(@, NextSlot(@), [klass |-> "Record", rec |-> rec]),
              !.ret = NextSlot(W.stateObjects)]

\* the record a reference stands for, as the loops over its entries see it
Deref(W, ref) ==
    IF ref = 0 THEN NoUnknownState ELSE UnknownRecord(W.stateObjects[ref].rec)

\* new NodeState(node, sharedNodeState, unknownState, knownState, size)
NewNodeStateByRef(W, node, type, unknownState, knownState, size) ==
    LET configMap == W.sharedConfigMap[type]
        computedSize == IF size # -1 THEN size
                        ELSE computeSize(configMap, Deref(W, unknownState), knownState)
        s == [klass |-> "NodeState", node |-> node, sharedNodeState |-> type,
              unknownState |-> unknownState, knownState |-> knownState,
              size |-> computedSize]
    IN  IF devBuild /\ ~(size = -1 \/ computedSize = size)
        THEN Throw(W, "stateSizeMismatch")
        ELSE IF devBuild /\ \E c \in DOMAIN knownState : configKey(c) \notin DOMAIN configMap
        THEN Throw(W, "stateConfigMissing")
        ELSE [W EXCEPT !.stateObjects = Store(@, NextSlot(@), s),
                       !.ret = NextSlot(W.stateObjects)]

\* parseAndPruneNextUnknownState: the record it returns is a new object
parseAndPruneNextUnknownStateByRef(W, configMap, unknownState) ==
    LET next == parseAndPruneNextUnknownState(configMap, Deref(W, unknownState))
    IN  IF next.defined THEN NewRecord(W, next.rec) ELSE Return(W, 0)

\* NodeState.getWritable(node)
NodeStateGetWritableByRef(W, st, node) ==
    LET this == W.stateObjects[st]
        configMap == W.sharedConfigMap[this.sharedNodeState]
    IN  IF this.node = node THEN Return(W, st)
        ELSE Then(parseAndPruneNextUnknownStateByRef(W, configMap, this.unknownState),
             LAMBDA a :
                 NewNodeStateByRef(a, node, this.sharedNodeState, a.ret,
                     parseNextKnownState(configMap, this.knownState,
                                         Deref(W, this.unknownState)),
                     this.size))

\* NodeState.updateFromKnown: delete unknownState[key] writes into the
\* record the state refers to
updateFromKnownByRef(W, st, stateConfig, value) ==
    LET this == W.stateObjects[st]
        key == configKey(stateConfig)
        u == this.unknownState
        absent == ~(\/ stateConfig \in DOMAIN this.knownState
                    \/ (u # 0 /\ key \in DOMAIN W.stateObjects[u].rec))
        W0 == [W EXCEPT !.sharedConfigMap[this.sharedNodeState] = Put(@, key, stateConfig)]
        W1 == IF absent /\ u # 0
              THEN [W0 EXCEPT !.stateObjects[u].rec = Remove(@, key),
                              !.stateObjects[st].unknownState =
                                  IF DOMAIN Remove(W.stateObjects[u].rec, key) = {}
                                  THEN 0 ELSE u]
              ELSE W0
    IN  [W1 EXCEPT
           !.stateObjects[st].size = IF absent THEN @ + 1 ELSE @,
           !.stateObjects[st].knownState = Put(@, stateConfig, value)]

\* NodeState.updateFromUnknown: this.unknownState || {} makes the record
\* when there is none, this.unknownState[k] = v writes into it
updateFromUnknownByRef(W, st, k, v) ==
    LET configMap == W.sharedConfigMap[W.stateObjects[st].sharedNodeState]
        W0 == IF W.stateObjects[st].unknownState # 0 THEN W
              ELSE LET a == NewRecord(W, EmptyMap)
                   IN  [a EXCEPT !.stateObjects[st].unknownState = a.ret, !.ret = W.ret]
        u == W0.stateObjects[st].unknownState
    IN  IF k \in DOMAIN configMap
        THEN updateFromKnownByRef(W, st, configMap[k], parse(configMap[k], v))
        ELSE [W0 EXCEPT
                !.stateObjects[st].size =
                    IF k \in DOMAIN W0.stateObjects[u].rec THEN @ ELSE @ + 1,
                !.stateObjects[u].rec = Put(@, k, v)]

\* the loop of updateFromJSON over Object.entries(unknownState), which are
\* read before the loop starts
RECURSIVE updateFromEntriesByRef(_, _, _, _)
updateFromEntriesByRef(W, st, rec, keys) ==
    IF keys = {} THEN W
    ELSE LET k == CHOOSE x \in keys : TRUE
         IN  updateFromEntriesByRef(updateFromUnknownByRef(W, st, k, rec[k]),
                                    st, rec, keys \ {k})

\* NodeState.updateFromJSON(unknownState)
updateFromJSONByRef(W, st, unknownState) ==
    LET this == W.stateObjects[st]
        W0 == [W EXCEPT
                 !.stateObjects[st].knownState =
                     [c \in DOMAIN this.knownState |-> defaultValue(c)],
                 !.stateObjects[st].size = Cardinality(DOMAIN this.knownState),
                 !.stateObjects[st].unknownState = 0]
    IN  IF unknownState # 0
        THEN updateFromEntriesByRef(W0, st, W.stateObjects[unknownState].rec,
                                    DOMAIN W.stateObjects[unknownState].rec)
        ELSE W0

\* $getWritableNodeState(node)
getWritableNodeStateByRef(W, node) ==
    Then(getWritable(W, node), LAMBDA a :
        LET writable == a.ret IN
        Then(IF a.objects[writable].state # 0
             THEN NodeStateGetWritableByRef(a, a.objects[writable].state, writable)
             ELSE Then(getSharedNodeState(a, writable), LAMBDA b :
                      NewNodeStateByRef(b, writable, b.ret, 0, EmptyMap, -1)),
        LAMBDA c : [c EXCEPT !.objects[writable].state = c.ret]))

\* $updateStateFromJSON with the copy left out: the flat keys are written
\* into the record under NODE_STATE_KEY
updateStateFromJSONInPlace(W, node, serialized) ==
    Then(getWritable(W, node), LAMBDA a :
        LET writable == a.ret IN
        Then(getSharedNodeState(a, writable), LAMBDA b :
            LET envelope == b.stateObjects[serialized]
                unknownState == envelope.state
                present == {k \in flatKeys[b.ret] : k \in DOMAIN envelope.rec}
                base == Deref(b, unknownState).rec
                written == [k \in (DOMAIN base) \cup present |->
                               IF k \in present THEN envelope.rec[k] ELSE base[k]]
                copied == IF present = {} THEN Return(b, unknownState)
                          ELSE IF unknownState = 0 THEN NewRecord(b, written)
                          ELSE [b EXCEPT !.stateObjects[unknownState].rec = written,
                                         !.ret = unknownState]
            IN  Then(copied, LAMBDA c :
                    LET parseState == c.ret IN
                    IF c.objects[writable].state # 0 \/ parseState # 0
                    THEN Then(getWritableNodeStateByRef(c, node), LAMBDA d :
                             Return(updateFromJSONByRef(d, d.ret, parseState), writable))
                    ELSE Return(c, writable))))

\* $updateStateFromJSON(node, serialized): the first flat key found at the
\* top level makes parseState a copy of the record under NODE_STATE_KEY,
\* and every flat key found is written into the copy
updateStateFromJSONByRef(W, node, serialized) ==
    Then(getWritable(W, node), LAMBDA a :
        LET writable == a.ret IN
        Then(getSharedNodeState(a, writable), LAMBDA b :
            LET envelope == b.stateObjects[serialized]
                unknownState == envelope.state
                present == {k \in flatKeys[b.ret] : k \in DOMAIN envelope.rec}
                base == Deref(b, unknownState).rec
                copied == IF present = {} THEN Return(b, unknownState)
                          ELSE NewRecord(b, [k \in (DOMAIN base) \cup present |->
                                   IF k \in present THEN envelope.rec[k] ELSE base[k]])
            IN  Then(copied, LAMBDA c :
                    LET parseState == c.ret IN
                    IF c.objects[writable].state # 0 \/ parseState # 0
                    THEN Then(getWritableNodeStateByRef(c, node), LAMBDA d :
                             Return(updateFromJSONByRef(d, d.ret, parseState), writable))
                    ELSE Return(c, writable))))

(***************************************************************************)
(* The specification of import from a serialized node the caller keeps:    *)
(* one text node of a type that declares 'lang' (flat or nested), one      *)
(* serialized node, imports of it and writes to the node's state after     *)
(***************************************************************************)
\* the serialized node and the record under its NODE_STATE_KEY
HeldRecords(sts) ==
    LET held == {i \in 1..Len(sts) : sts[i].klass = "SerializedNode"}
    IN  held \cup ({sts[i].state : i \in held} \ {0})

\* the end of an operation: the caller's serialized node and the records
\* the live NodeStates refer to stay
CollectRecords(W, retKind) ==
    LET live == Reachable(W.objects, W.stateObjects,
                          LiveObjects(W, retKind), LiveStates(W, retKind))
        records == HeldRecords(W.stateObjects)
                   \cup ({W.stateObjects[s].unknownState : s \in live.s} \ {0})
        swept == Sweep(W.objects, W.stateObjects,
                       [o |-> live.o, s |-> live.s \cup records])
    IN  [W EXCEPT !.objects = swept.objects,
                  !.stateObjects = swept.stateObjects]

FinishEnvelope(W, op, retKind) ==
    \E C \in {CollectRecords(W, retKind)} :
    /\ Len(C.objects) <= MaxObjects
    /\ Len(C.stateObjects) <= MaxEnvelopeObjects
    /\ C.keyCounter <= MaxKeyCounter + 1
    /\ objects' = C.objects
    /\ stateObjects' = C.stateObjects
    /\ sharedConfigMap' = C.sharedConfigMap
    /\ nodeMap' = C.nodeMap
    /\ selection' = C.selection
    /\ dirtyElements' = C.dirtyElements
    /\ dirtyLeaves' = C.dirtyLeaves
    /\ cloneNotNeeded' = C.cloneNotNeeded
    /\ keyCounter' = C.keyCounter
    /\ pendingNodeToClone' = C.pendingNodeToClone
    /\ result' = [op |-> op, err |-> C.err,
                  ret |-> IF C.err = OK THEN C.ret ELSE 0]
    /\ UNCHANGED <<devBuild, flatKeys, prevNodeMap, activeEditor, activeEditorState,
                   isReadOnlyMode>>

\* the callback returns: a pending state becomes the committed one
EnvelopeCommit ==
    /\ activeEditorState # NULL
    /\ activeEditor' = NULL
    /\ activeEditorState' = NULL
    /\ isReadOnlyMode' = FALSE
    /\ prevNodeMap' = nodeMap
    /\ cloneNotNeeded' = {}
    /\ dirtyElements' = EmptyMap
    /\ dirtyLeaves' = {}
    /\ selection' = NoSelection
    /\ \E live \in {Reachable(objects, stateObjects, Range(nodeMap), {})} :
       \E swept \in {Sweep(objects, stateObjects,
                           [o |-> live.o,
                            s |-> live.s \cup HeldRecords(stateObjects)
                                  \cup ({stateObjects[s].unknownState : s \in live.s}
                                        \ {0})])} :
           /\ objects' = swept.objects
           /\ stateObjects' = swept.stateObjects
    /\ result' = [op |-> "commit", err |-> OK, ret |-> 0]
    /\ UNCHANGED <<devBuild, sharedConfigMap, flatKeys, nodeMap, keyCounter,
                   pendingNodeToClone>>

\* the serialized nodes a caller passes in: no state; 'lang' and an
\* undeclared key 'x' under NODE_STATE_KEY; 'lang' at the top level too, with
\* another value; 'lang' at the top level only
SerializedNodes ==
    {Serialized(NoUnknownState, EmptyMap),
     Serialized(UnknownRecord([k \in {"lang", "x"} |->
                                  IF k = "lang" THEN "fr" ELSE "b"]), EmptyMap),
     Serialized(UnknownRecord([k \in {"lang", "x"} |->
                                  IF k = "lang" THEN "fr" ELSE "b"]),
                [k \in {"lang"} |-> "de"]),
     Serialized(UnknownRecord([k \in {"x"} |-> "b"]),
                [k \in {"lang"} |-> "de"]),
     Serialized(NoUnknownState, [k \in {"lang"} |-> "de"])}

\* the caller's serialized node as objects: the record under
\* NODE_STATE_KEY, when there is one, and the node that refers to it
newSerializedNode(W, serialized) ==
    LET a == IF serialized.state.defined THEN NewRecord(W, serialized.state.rec)
             ELSE Return(W, 0)
    IN  [a EXCEPT !.stateObjects = Store(@, NextSlot(@),
                      [klass |-> "SerializedNode", rec |-> serialized.flat,
                       state |-> a.ret]),
                  !.ret = NextSlot(a.stateObjects)]

\* the caller parses one serialized node and keeps it
ParseSerializedNode ==
    /\ HeldRecords(stateObjects) = {}
    /\ \E serialized \in SerializedNodes :
           \E R \in {newSerializedNode(World, serialized)} :
               FinishEnvelope(R, "parse", "none")

\* new TextNode(), for the first MaxStateNodes text nodes
EnvelopeConstructText ==
    /\ keyCounter <= MaxStateNodes
    /\ \E R \in {construct(World, "TextNode", NULL, "")} :
           FinishEnvelope(R, "construct", "node")

\* $updateStateFromJSON(node, serialized) with the serialized node the
\* caller keeps
EnvelopeUpdateStateFromJSON ==
    \E node \in NodesOf({"TextNode"}) :
    \E serialized \in {i \in 1..Len(stateObjects) :
                           stateObjects[i].klass = "SerializedNode"} :
        \E R \in {updateStateFromJSONByRef(World, node, serialized)} :
            FinishEnvelope(R, "updateStateFromJSON", "node")

\* $getWritableNodeState(node).updateFromUnknown(k, v)
EnvelopeUpdateFromUnknown ==
    \E node \in NodesOf({"TextNode"}), k \in {"x"} :
        \E R \in {Then(getWritableNodeStateByRef(World, node), LAMBDA a :
                      updateFromUnknownByRef(a, a.ret, k, "z"))} :
            FinishEnvelope(R, "updateFromUnknown", "none")

\* $getWritableNodeState(node).updateFromKnown(stateConfig, value) with a
\* StateConfig of key name 'x', which is registered by the write
EnvelopeUpdateFromKnown ==
    \E node \in NodesOf({"TextNode"}), cfg \in {"cfgX1"} :
        \E R \in {Then(getWritableNodeStateByRef(World, node), LAMBDA a :
                      updateFromKnownByRef(a, a.ret, cfg, parse(cfg, "b")))} :
            FinishEnvelope(R, "updateFromKnown", "none")

NextEnvelope ==
    \/ BeginStateUpdate
    \/ EnvelopeCommit
    \/ ParseSerializedNode
    \/ EnvelopeConstructText
    \/ EnvelopeUpdateStateFromJSON
    \/ EnvelopeUpdateFromUnknown
    \/ EnvelopeUpdateFromKnown

SpecEnvelope == InitImport /\ [][NextEnvelope]_vars

(***************************************************************************)
(* Properties                                                              *)
(***************************************************************************)
\* the last operation was op and it returned normally
Returned(op) == result.op = op /\ result.err = OK

\* the last operation was op and it threw err
Threw(op, err) == result.op = op /\ result.err = err

\* the node objects the committed snapshot holds
Committed == Range(prevNodeMap)

\* a step keeps every node object that stays in the committed snapshot, and
\* the NodeState it references, as it was
CommittedFrame ==
    \A i \in Committed \cap Range(prevNodeMap') :
        /\ objects'[i] = objects[i]
        /\ objects[i].state # 0 =>
               stateObjects'[objects[i].state] = stateObjects[objects[i].state]

\* a getWritable() that returned has its result installed under its key, and
\* for a committed key the result is not the committed object
InstalledNew ==
    Returned("getWritable") =>
        LET K == objects[result.ret].key
        IN  /\ K \in DOMAIN nodeMap
            /\ nodeMap[K] = result.ret
            /\ K \in DOMAIN prevNodeMap => result.ret # prevNodeMap[K]

InUpdate == activeEditorState = "pending" /\ activeEditorState' = "pending"

\* C2: within one transaction the first successful getWritable() on a key
\* decides the key's writable object: the call's result is the NodeMap entry
\* of the key, the key stays in cloneNotNeeded and its entry stays the same
\* object through every later step of the transaction, a later getWritable()
\* on the key returns that entry and allocates no object, and a node created
\* with a fresh key is itself the entry getWritable() returns.
C2_SameWritable ==
    [][InUpdate =>
        /\ \A K \in cloneNotNeeded :
               /\ K \in cloneNotNeeded'
               /\ K \in DOMAIN nodeMap /\ K \in DOMAIN nodeMap'
               /\ nodeMap'[K] = nodeMap[K]
        /\ (result'.op = "getWritable" /\ result'.err = OK) =>
               LET K == objects'[result'.ret].key
               IN  /\ K \in cloneNotNeeded'
                   /\ nodeMap'[K] = result'.ret
                   /\ K \in cloneNotNeeded =>
                          /\ result'.ret = nodeMap[K]
                          /\ {i \in 1..Len(objects') : ~IsFree(objects'[i])}
                                 \subseteq Objects
        /\ (result'.op = "construct" /\ result'.err = OK
               /\ keyCounter' # keyCounter) =>
               LET K == objects'[result'.ret].key
               IN  K \in cloneNotNeeded' /\ nodeMap'[K] = result'.ret
      ]_vars

\* C2 witness: getWritable() has returned, for a committed key that had been
\* cloned earlier in the transaction, the clone itself.
C2_Witness ==
    /\ Returned("getWritable")
    /\ activeEditorState = "pending"
    /\ objects[result.ret].key \in DOMAIN prevNodeMap
    /\ objects[result.ret].text = "a"
    /\ objects[prevNodeMap[objects[result.ret].key]].text = ""

\* C3: after a getWritable() that succeeded on a node, every ancestor of the
\* node (every key reached by following parent keys in the active NodeMap)
\* is present in dirtyElements; the update may end in this very state.
C3_AncestorsDirty ==
    (Returned("getWritable") /\ activeEditorState = "pending") =>
        Ancestors(objects[result.ret].key, nodeMap, objects)
            \subseteq DOMAIN dirtyElements

\* the distinct key names of a NodeState, known and unknown together
KeyNames(st) ==
    {configKey(c) : c \in DOMAIN stateObjects[st].knownState}
        \cup (IF stateObjects[st].unknownState.defined
              THEN DOMAIN stateObjects[st].unknownState.rec ELSE {})

\* C4: the size of every NodeState is the number of distinct key names
\* across its knownState and its unknownState, a StateConfig counting by
\* its key name.
C4_SizeIsKeyCount ==
    \A st \in StateObjects : stateObjects[st].size = Cardinality(KeyNames(st))

\* the classes whose clone passes the key on and whose afterCloneFrom
\* calls super
ProperKlasses == {"TextNode", "RootNode", "ParagraphNode"}

SameIdentity(a, b) ==
    a.key = b.key /\ a.parent = b.parent /\ a.prev = b.prev /\ a.next = b.next

CloneErrors == {"cloneKeyMismatch", "cloneLinksMismatch"}

Untouched(R) ==
    /\ R.nodeMap = nodeMap
    /\ R.dirtyElements = dirtyElements
    /\ R.dirtyLeaves = dirtyLeaves
    /\ R.cloneNotNeeded = cloneNotNeeded
    /\ R.keyCounter = keyCounter
    /\ R.selection = selection

\* C6: with no editor active every node construction (fresh key, explicit
\* key, or with a pending clone staged) fails with the 'no active editor'
\* error and adds no node to the NodeMap or to a dirty set.
C6_ConstructNeedsEditor ==
    activeEditor = NULL =>
        \A klass \in {"RootNode", "TextNode", "ParagraphNode"},
           keyArg \in ExplicitKeys \cup {NULL}, pending \in Objects \cup {0} :
            (klass = "RootNode" => keyArg = NULL) =>
                LET R == construct([World EXCEPT !.pendingNodeToClone = pending],
                                   klass, keyArg, "")
                IN  /\ R.err = "noActiveEditor"
                    /\ R.nodeMap = nodeMap
                    /\ R.dirtyElements = dirtyElements
                    /\ R.dirtyLeaves = dirtyLeaves

\* C7: while the read-only flag is set, getWritable() on any node and the
\* construction of a node with a fresh key fail with the read-only error,
\* whatever else is wrong with the call; with the flag clear and no editor
\* active they fail with the 'no active editor' error; either failure leaves
\* the NodeMap, the dirty sets, cloneNotNeeded, the key counter and the
\* selection's cached nodes unchanged.
C7_ContextErrors ==
    LET expected == IF isReadOnlyMode THEN "readOnly" ELSE "noActiveEditor"
    IN  (isReadOnlyMode \/ activeEditor = NULL) =>
            /\ \A node \in Objects :
                   LET G == getWritable(World, node)
                   IN  G.err = expected /\ Untouched(G)
            /\ \A klass \in {"TextNode", "ParagraphNode"}, text \in Texts :
                   LET R == construct(World, klass, NULL, text)
                   IN  R.err = expected /\ Untouched(R)

\* C7 witness: in a read-only transaction getWritable() has thrown the
\* read-only error and the selection still holds its cached nodes.
C7_Witness ==
    /\ isReadOnlyMode
    /\ activeEditor # NULL
    /\ Threw("getWritable", "readOnly")
    /\ selection.cachedNodes # NULL

\* the node objects whose key the active NodeMap does not hold
Stale == {n \in Objects : objects[n].key \notin DOMAIN nodeMap}

\* C8: in a transaction getLatest(), and in an update getWritable(), on a
\* node whose key the active NodeMap does not hold fail with the
\* stale-reference error, and leave the NodeMap without the key, the dirty
\* sets, cloneNotNeeded and the selection's cached nodes as they were.
C8_StaleReference ==
    \A node \in Stale :
        /\ activeEditorState # NULL =>
               LET L == getLatest(World, node)
               IN  L.err = "staleNode" /\ Untouched(L)
        /\ activeEditorState = "pending" =>
               LET G == getWritable(World, node)
               IN  G.err = "staleNode" /\ Untouched(G)

\* C8 witness: getWritable() has thrown the stale-reference error in an
\* update whose selection still holds its cached nodes.
C8_Witness ==
    /\ activeEditorState = "pending"
    /\ Threw("getWritable", "staleNode")
    /\ selection.cachedNodes # NULL

\* the NodeState objects the committed snapshot's nodes reference
CommittedStates == {objects[i].state : i \in Committed} \ {0}

\* the worlds the state writes on a node end in
StateWrites(node) ==
    {getWritableNodeState(World, node)}
        \cup {setState(World, node, cfg, parse(cfg, v)) :
                  cfg \in StateConfigs, v \in RawValues}
        \cup {setUnknownState(World, node, k, v) : k \in StateKeys, v \in RawValues}
        \cup {setStateFromJSON(World, node, rec) :
                  rec \in JSONRecords(StateKeys, RawValues)}

\* C9: NodeState copy-on-write.  A state write in an update
\* ($getWritableNodeState alone or followed by updateFromKnown,
\* updateFromUnknown or updateFromJSON) leaves every NodeState a committed
\* node references as it was (knownState, unknownState, size and bound
\* node), and the state of the written node is afterwards a NodeState that
\* no committed node references.
C9_StateCopyOnWrite ==
    activeEditorState = "pending" =>
        \A node \in NodesOf({"TextNode"}) : \A R \in StateWrites(node) :
            R.err = OK =>
                LET w == R.nodeMap[objects[node].key]
                IN  /\ \A s \in CommittedStates :
                           R.stateObjects[s] = stateObjects[s]
                    /\ R.objects[w].state # 0
                    /\ R.objects[w].state \notin CommittedStates

\* C9 witness: a committed text node and its clone reference two NodeState
\* objects, and the clone's has been written so that their contents differ.
C9_Witness ==
    \E K \in DOMAIN prevNodeMap \cap DOMAIN nodeMap :
        LET old == objects[prevNodeMap[K]].state
            new == objects[nodeMap[K]].state
        IN  /\ activeEditorState = "pending"
            /\ result.op \in {"updateFromKnown", "updateFromUnknown", "updateFromJSON"}
            /\ old # 0 /\ new # 0 /\ new # old
            /\ stateObjects[old].size > 0
            /\ stateObjects[new].knownState # stateObjects[old].knownState
            /\ stateObjects[new].unknownState # stateObjects[old].unknownState

\* C10: $getWritableNodeState(node) changes the NodeMap, cloneNotNeeded and
\* the dirty sets exactly as getWritable() does, returns a NodeState bound
\* to the node getWritable() returns (the NodeMap entry of the key) and
\* installs it as that node's state; a second call, on the node or on the
\* writable node, returns the same NodeState and allocates no other.
C10_WritableNodeState ==
    activeEditorState = "pending" =>
        \A node \in NodesOf({"TextNode"}) :
            LET R == getWritableNodeState(World, node)
                G == getWritable(World, node)
            IN  /\ R.err = G.err
                /\ R.err = OK =>
                       LET w == R.nodeMap[objects[node].key]
                           again == {getWritableNodeState(R, n) : n \in {node, w}}
                       IN  /\ G.ret = w
                           /\ R.nodeMap = G.nodeMap
                           /\ R.cloneNotNeeded = G.cloneNotNeeded
                           /\ R.dirtyLeaves = G.dirtyLeaves
                           /\ R.dirtyElements = G.dirtyElements
                           /\ R.stateObjects[R.ret].node = w
                           /\ R.objects[w].state = R.ret
                           /\ \A R2 \in again :
                                  /\ R2.err = OK
                                  /\ R2.ret = R.ret
                                  /\ R2.stateObjects = R.stateObjects
                                  /\ R2.nodeMap = R.nodeMap

\* C10 witness: $getWritableNodeState has returned, for a committed node
\* without state, the NodeState that earlier writes of this update filled.
C10_Witness ==
    /\ activeEditorState = "pending"
    /\ Returned("getWritableNodeState")
    /\ stateObjects[result.ret].size > 0
    /\ \E K \in DOMAIN prevNodeMap \cap DOMAIN nodeMap :
           /\ stateObjects[result.ret].node = nodeMap[K]
           /\ objects[nodeMap[K]].state = result.ret
           /\ nodeMap[K] # prevNodeMap[K]
           /\ objects[prevNodeMap[K]].state = 0

\* the key names of the unknownState of a NodeState record
UnknownKeys(s) == IF s.unknownState.defined THEN DOMAIN s.unknownState.rec ELSE {}

\* the key names of the StateConfigs of the knownState of a NodeState record
KnownKeys(s) == {configKey(c) : c \in DOMAIN s.knownState}

\* the text nodes the active NodeMap holds
LatestTextNodes == {n \in NodesOf({"TextNode"}) :
                       /\ objects[n].key \in DOMAIN nodeMap
                       /\ nodeMap[objects[n].key] = n}

\* the writes to key name k of a node's state that find or make k
\* recognized: updateFromKnown with a StateConfig of that key name, and,
\* once the shared config map holds k, updateFromUnknown and the bare copy
KeyWrites(node, k) ==
    {setState(World, node, cfg, parse(cfg, v)) :
         cfg \in {c \in StateConfigs : configKey(c) = k}, v \in RawValues}
    \cup (IF k \in DOMAIN sharedConfigMap[objects[node].type]
          THEN {setUnknownState(World, node, k, v) : v \in RawValues}
                   \cup (IF stateObjects[objects[node].state].node # node
                            \/ objects[node].key \notin cloneNotNeeded
                         THEN {getWritableNodeState(World, node)} ELSE {})
          ELSE {})

\* C11: when a key name is in the unknownState of a node's NodeState and a
\* StateConfig of that key name is registered, the next write to the node's
\* state (the copy of a NodeState bound to an older node version, or
\* updateFromKnown / updateFromUnknown on the NodeState of the writable
\* node) leaves the key name known, absent from unknownState, and the size
\* as it was.
C11_PromoteOnWrite ==
    activeEditorState = "pending" =>
        \A node \in LatestTextNodes :
            objects[node].state # 0 =>
                \A k \in UnknownKeys(stateObjects[objects[node].state]) :
                    \A R \in KeyWrites(node, k) :
                        R.err = OK =>
                            LET w == R.nodeMap[objects[node].key]
                                after == R.stateObjects[R.objects[w].state]
                            IN  /\ k \in KnownKeys(after)
                                /\ k \notin UnknownKeys(after)
                                /\ after.size = stateObjects[objects[node].state].size

\* C12: after updateFromKnown(config, value) on a NodeState the shared
\* config map holds config under its key name, unknownState has no entry of
\* that key name, knownState maps config to value, and the size is one more
\* than before when config was not in knownState and its key name not in
\* unknownState, and as before otherwise.
C12_UpdateFromKnown ==
    activeEditorState = "pending" =>
        \A node \in LatestTextNodes :
            LET A == getWritableNodeState(World, node) IN
            A.err = OK =>
                \A cfg \in StateConfigs, v \in RawValues :
                    LET st == A.ret
                        before == A.stateObjects[st]
                        R == updateFromKnown(A, st, cfg, parse(cfg, v))
                        after == R.stateObjects[st]
                        key == configKey(cfg)
                    IN  /\ key \in DOMAIN R.sharedConfigMap[before.sharedNodeState]
                        /\ R.sharedConfigMap[before.sharedNodeState][key] = cfg
                        /\ key \notin UnknownKeys(after)
                        /\ cfg \in DOMAIN after.knownState
                        /\ after.knownState[cfg] = parse(cfg, v)
                        /\ after.size =
                               IF cfg \in DOMAIN before.knownState
                                      \/ key \in UnknownKeys(before)
                               THEN before.size ELSE before.size + 1

\* the entries of a JSON record whose key names configMap does not hold
Unrecognized(configMap, rec) ==
    IF rec.defined
    THEN [k \in {x \in DOMAIN rec.rec : x \notin DOMAIN configMap} |-> rec.rec[k]]
    ELSE EmptyMap

\* C13: after updateFromJSON(record) on a NodeState every StateConfig that
\* was in knownState has the value parse(record[key]) when the record has
\* its key name and its default value otherwise; unknownState holds exactly
\* the record's entries whose key names the shared config map does not hold
\* (undefined when there are none); and the size is the number of
\* StateConfigs in knownState plus the number of those entries.
C13_UpdateFromJSON ==
    activeEditorState = "pending" =>
        \A node \in LatestTextNodes :
            LET A == getWritableNodeState(World, node) IN
            A.err = OK =>
                \A rec \in JSONRecords(StateKeys, RawValues) :
                    LET st == A.ret
                        before == A.stateObjects[st]
                        configMap == A.sharedConfigMap[before.sharedNodeState]
                        R == updateFromJSON(A, st, rec)
                        after == R.stateObjects[st]
                        rest == Unrecognized(configMap, rec)
                    IN  /\ \A c \in DOMAIN before.knownState :
                               /\ c \in DOMAIN after.knownState
                               /\ after.knownState[c] =
                                      IF rec.defined /\ configKey(c) \in DOMAIN rec.rec
                                      THEN parse(c, rec.rec[configKey(c)])
                                      ELSE defaultValue(c)
                        /\ after.unknownState =
                               IF DOMAIN rest = {} THEN NoUnknownState
                               ELSE UnknownRecord(rest)
                        /\ after.size = Cardinality(DOMAIN after.knownState)
                                            + Cardinality(DOMAIN rest)

\* the entries of the unknownState of a NodeState record whose key names
\* configMap does not hold
UnrecognizedState(configMap, s) == Unrecognized(configMap, s.unknownState)

\* the worlds that a clone of the node, a copy of its NodeState and the
\* writes to key names other than k end in
OtherWrites(node, k) ==
    {getWritable(World, node), getWritableNodeState(World, node)}
        \cup {setState(World, node, cfg, parse(cfg, v)) :
                  cfg \in {c \in StateConfigs \cup DeclaredConfigs : configKey(c) # k},
                  v \in RawValues}
        \cup {setUnknownState(World, node, k2, v) :
                  k2 \in (StateKeys \cup {"lang", "mystery"}) \ {k}, v \in RawValues}

\* C14: a key name in the unknownState of a node's NodeState that the shared
\* config map does not hold stays there with its value through a clone of
\* the node, a copy of the NodeState and a write to any other key name; and
\* importing what the node's state exports gives the same knownState and
\* the same unrecognized entries.
C14_UnknownRoundTrip ==
    activeEditorState = "pending" =>
        \A node \in LatestTextNodes :
            LET configMap == sharedConfigMap[objects[node].type]
                st == objects[node].state
            IN  /\ st # 0 =>
                       \A k \in DOMAIN UnrecognizedState(configMap, stateObjects[st]) :
                           \A R \in OtherWrites(node, k) :
                               R.err = OK =>
                                   LET w == R.nodeMap[objects[node].key]
                                       after == R.stateObjects[R.objects[w].state]
                                   IN  /\ k \in UnknownKeys(after)
                                       /\ after.unknownState.rec[k]
                                              = stateObjects[st].unknownState.rec[k]
                /\ \A serialized \in exportJSON(World, node) :
                       LET R == updateStateFromJSON(World, node, serialized)
                           w == R.nodeMap[objects[node].key]
                       IN  /\ R.err = OK
                           /\ IF st = 0 THEN R.objects[w].state = 0
                              ELSE LET after == R.stateObjects[R.objects[w].state]
                                   IN  /\ after.knownState = stateObjects[st].knownState
                                       /\ UnrecognizedState(R.sharedConfigMap[objects[node].type], after)
                                              = UnrecognizedState(configMap, stateObjects[st])

\* the serialized text nodes of the scenario: the state slot {lang: 'fr',
\* mystery: 42}, the same with 'lang' at the top level, and no state slot
LangNested ==
    Serialized(UnknownRecord([k \in {"lang", "mystery"} |->
                                 IF k = "lang" THEN "fr" ELSE "42"]), EmptyMap)

LangFlat ==
    Serialized(UnknownRecord([k \in {"mystery"} |-> "42"]), [k \in {"lang"} |-> "fr"])

NoStateSlot == Serialized(NoUnknownState, EmptyMap)

\* the text type declares the one state key 'lang' and no other StateConfig
\* has been registered
OnlyLangDeclared == sharedConfigMap["text"] = [k \in {"lang"} |-> "cfgLang"]

\* C15: with a text type that declares the one state key 'lang' (parse
\* passes through, default 'en'), importing the state slot {lang: 'fr',
\* mystery: 42} (with 'lang' at the top level when it is declared flat)
\* gives the known value 'fr' for 'lang', mystery = 42 in unknownState and
\* size 2, and the export gives the imported envelope back; importing an
\* envelope without state slot gives 'en' for 'lang' and an export without
\* the key.
C15_LangScenario ==
    (activeEditorState = "pending" /\ OnlyLangDeclared) =>
        \A node \in LatestTextNodes :
            LET envelope == IF flatKeys["text"] = {} THEN LangNested ELSE LangFlat
                R == updateStateFromJSON(World, node, envelope)
                w == R.nodeMap[objects[node].key]
                after == R.stateObjects[R.objects[w].state]
                N == updateStateFromJSON(World, node, NoStateSlot)
                v == N.nodeMap[objects[node].key]
            IN  /\ R.err = OK
                /\ R.objects[w].state # 0
                /\ getState(R, w, "cfgLang") = "fr"
                /\ after.knownState = [c \in {"cfgLang"} |-> "fr"]
                /\ after.unknownState = UnknownRecord([k \in {"mystery"} |-> "42"])
                /\ after.size = 2
                /\ exportJSON(R, w) = {envelope}
                /\ N.err = OK
                /\ getState(N, v, "cfgLang") = "en"
                /\ exportJSON(N, v) = {NoStateSlot}

\* C15 witness: the scenario's envelope has been imported into a text node
\* while 'lang' was the only registered key: 'lang' is known as 'fr',
\* 'mystery' unknown, the size 2.
C15_Witness ==
    /\ Returned("updateStateFromJSON")
    /\ OnlyLangDeclared
    /\ flatKeys["text"] = {}
    /\ objects[result.ret].state # 0
    /\ stateObjects[objects[result.ret].state].knownState = [c \in {"cfgLang"} |-> "fr"]
    /\ UnknownKeys(stateObjects[objects[result.ret].state]) = {"mystery"}
    /\ stateObjects[objects[result.ret].state].size = 2

\* the element of key P hangs under the root and the text node of key T
\* under the element, and the element's child fields name T as its one child
TreeBuilt(P, T) ==
    /\ P \in DOMAIN nodeMap /\ T \in DOMAIN nodeMap
    /\ objects[nodeMap[P]].klass = "ParagraphNode"
    /\ objects[nodeMap[T]].klass = "TextNode"
    /\ objects[nodeMap[P]].parent = "root"
    /\ objects[nodeMap[T]].parent = P
    /\ objects[nodeMap[P]].first = T
    /\ objects[nodeMap[P]].last = T
    /\ objects[nodeMap[P]].size = 1

\* the root's child fields name the element of key P as its one child
RootHolds(P) ==
    /\ objects[nodeMap["root"]].first = P
    /\ objects[nodeMap["root"]].last = P
    /\ objects[nodeMap["root"]].size = 1

KeyedKlasses ==
    {k \in Klasses \ {"RootNode"} : getRegisteredNode(getType(k)) = k}

\* what a construction with no explicit key does to the world W, R being
\* the world it leaves
FreshKeyEffects(W, R, klass) ==
    LET key == KeyString(W.keyCounter)
        node == R.ret
    IN  /\ R.err = OK
        /\ R.keyCounter = W.keyCounter + 1
        /\ R.objects[node].key = key
        /\ R.objects[node].klass = klass
        /\ R.nodeMap = Put(W.nodeMap, key, node)
        /\ \A k \in DOMAIN W.nodeMap : R.nodeMap[k] = W.nodeMap[k]
        /\ R.dirtyElements =
               IF isElementKlass(klass) THEN Put(W.dirtyElements, key, TRUE)
               ELSE W.dirtyElements
        /\ \A k \in DOMAIN W.dirtyElements : R.dirtyElements[k] = W.dirtyElements[k]
        /\ R.dirtyLeaves =
               IF isElementKlass(klass) THEN W.dirtyLeaves
               ELSE W.dirtyLeaves \cup {key}
        /\ R.cloneNotNeeded = W.cloneNotNeeded \cup {key}

\* C17: in a writable update with no pending clone staged, constructing a
\* node with no explicit key allocates a fresh key, puts the node in the
\* NodeMap under it, records it own-dirty in dirtyElements (an element) or
\* in dirtyLeaves (a leaf), adds the key to cloneNotNeeded, and changes no
\* other NodeMap entry and no other dirty entry.
C17_FreshKeyConstruction ==
    (activeEditorState = "pending" /\ ~isReadOnlyMode /\ pendingNodeToClone = 0) =>
        \A klass \in KeyedKlasses, text \in Texts :
            FreshKeyEffects(World, construct(World, klass, NULL, text), klass)

\* C17 witness: an element has just been constructed with a fresh key in an
\* update that already held another dirty element with a parent.
C17_Witness ==
    /\ activeEditorState = "pending"
    /\ result.op = "construct" /\ result.err = OK
    /\ result.ret \in 1..Len(objects)
    /\ objects[result.ret].klass = "ParagraphNode"
    /\ objects[result.ret].key = KeyString(keyCounter - 1)
    /\ keyCounter > 1
    /\ KeyString(keyCounter - 1) \in DOMAIN nodeMap
    /\ nodeMap[KeyString(keyCounter - 1)] = result.ret
    /\ KeyString(keyCounter - 1) \in DOMAIN dirtyElements
    /\ dirtyElements[KeyString(keyCounter - 1)] = TRUE
    /\ KeyString(keyCounter - 1) \in cloneNotNeeded
    /\ \E k \in DOMAIN dirtyElements :
           k # KeyString(keyCounter - 1) /\ objects[nodeMap[k]].parent # NULL

\* the keys the allocator has handed out so far
AllocatedKeys == {KeyString(n) : n \in 1..(keyCounter - 1)}

\* '' + n is one key per counter value
KeyStringInjective ==
    \A m, n \in 1..(MaxKeyCounter + 2) : KeyString(m) = KeyString(n) => m = n

\* every step leaves the counter alone or is one allocation: the counter
\* goes up by one and the key of its old value, which the NodeMap did not
\* hold, enters the NodeMap
AllocationStep ==
    \/ keyCounter' = keyCounter
    \/ /\ keyCounter' = keyCounter + 1
       /\ KeyString(keyCounter) \notin DOMAIN nodeMap
       /\ KeyString(keyCounter) \in DOMAIN nodeMap'
       /\ objects'[nodeMap'[KeyString(keyCounter)]].key = KeyString(keyCounter)
       /\ DOMAIN nodeMap' = (DOMAIN nodeMap) \cup {KeyString(keyCounter)}

\* no NodeMap holds, and no node carries, a key the allocator has yet to
\* hand out
NextKeyUnused ==
    /\ (DOMAIN nodeMap) \cup (DOMAIN prevNodeMap) \subseteq {"root"} \cup AllocatedKeys
    /\ \A o \in Objects : objects[o].key \in {"root"} \cup AllocatedKeys
    /\ KeyString(keyCounter) \notin {"root"} \cup AllocatedKeys

\* C18, as claimed: the allocator returns the counter's value and raises it
\* by one, the counter is never reset, inserting a new node never replaces
\* a NodeMap entry, and no two nodes constructed without an explicit key
\* share a key (ParagraphNode's constructor is never given one here).
C18_KeysNeverShared ==
    /\ [][AllocationStep]_vars
    /\ [](KeyStringInjective /\ NextKeyUnused)
    /\ [](\A a, b \in Objects :
             (/\ a # b
              /\ objects[a].klass = "ParagraphNode"
              /\ objects[b].klass = "ParagraphNode") =>
                 objects[a].key # objects[b].key)

\* C18, amended: the allocator returns the counter's value and raises it by
\* one, the counter is never reset, inserting a new node never replaces a
\* NodeMap entry, and the key a node gets from the allocator (constructed
\* with no explicit key and no staged pending clone) is the key of no
\* other node.
C18_AllocatedKeysUnique ==
    /\ [][AllocationStep]_vars
    /\ [](KeyStringInjective /\ NextKeyUnused)

\* C18 witness: two nodes constructed one after the other hold the two keys
\* handed out, next to the root's entry.
C18_Witness ==
    /\ keyCounter = 3
    /\ result.op = "construct" /\ result.err = OK
    /\ {"root", "1", "2"} \subseteq DOMAIN nodeMap
    /\ nodeMap["1"] # nodeMap["2"]
    /\ objects[nodeMap["1"]].key = "1"
    /\ objects[nodeMap["2"]].key = "2"

\* the classes constructed with an adopted key
AdoptingKlasses == {"TextNode", "ReloadedTextNode", "ParagraphNode"}

\* the world in which a new object of the class has been allocated and its
\* constructor is about to call $setNodeKey, pendingNode being staged
Adopting(klass, pendingNode) ==
    [World EXCEPT !.objects = Store(@, NextSlot(@), NewObject(klass)),
                  !.pendingNodeToClone = pendingNode]

\* what the key check of a validation build owes a node that adopts key:
\* R is the world $setNodeKey leaves
AdoptionOutcome(R, klass, key) ==
    LET node == NextSlot(objects)
        held == key \in DOMAIN nodeMap
        other == held /\ objects[nodeMap[key]].klass # klass
    IN  IF other /\ constructorName(objects[nodeMap[key]].klass) # constructorName(klass)
        THEN R.err = "keyReusedByOtherClass"
        ELSE IF other
        THEN R.err = "keyReusedAfterReload"
        ELSE /\ R.err = OK
             /\ R.objects[node].key = key
             /\ R.nodeMap = nodeMap
             /\ R.keyCounter = keyCounter

C20_KnownConfigsShared ==
    \A st \in StateObjects :
        \A cfg \in DOMAIN stateObjects[st].knownState :
            configKey(cfg) \in DOMAIN sharedConfigMap[stateObjects[st].sharedNodeState]

\* C20 witness: NodeState.getWritable has just copied the state of a node's
\* earlier version, which holds 'x' as unknown, into one that knows the
\* StateConfig registered for 'x'.
C20_Witness ==
    /\ result.op = "getWritableNodeState" /\ result.err = OK
    /\ result.ret \in StateObjects
    /\ "cfgX1" \in DOMAIN stateObjects[result.ret].knownState
    /\ ~stateObjects[result.ret].unknownState.defined
    /\ \E other \in StateObjects \ {result.ret} :
           /\ stateObjects[other].sharedNodeState = stateObjects[result.ret].sharedNodeState
           /\ stateObjects[other].node # stateObjects[result.ret].node
           /\ objects[stateObjects[other].node].key =
                  objects[stateObjects[result.ret].node].key
           /\ "x" \in UnknownKeys(stateObjects[other])
           /\ "cfgX1" \notin DOMAIN stateObjects[other].knownState

\* following parent keys from key reaches a key the map does not hold
RECURSIVE ChainDangles(_, _, _, _)
ChainDangles(key, map, objs, seen) ==
    IF key = NULL \/ key \in seen THEN FALSE
    ELSE IF key \notin DOMAIN map THEN TRUE
    ELSE ChainDangles(objs[map[key]].parent, map, objs, seen \cup {key})

\* the latest nodes of the active NodeMap whose parent chain holds a key
\* that does not resolve in it
DanglingNodes ==
    {n \in Objects :
        /\ objects[n].key \in DOMAIN nodeMap
        /\ nodeMap[objects[n].key] = n
        /\ ChainDangles(objects[n].parent, nodeMap, objects, {})}

\* C21, as claimed: in an update, getWritable() on a node whose parent
\* chain holds a key that does not resolve in the active NodeMap ends in an
\* error.
C21_DanglingParentFails ==
    (activeEditorState = "pending" /\ ~isReadOnlyMode) =>
        \A n \in DanglingNodes : getWritable(World, n).err # OK

\* the size recomputed from a NodeState's known and unknown state
RecomputedSize(W, s) ==
    computeSize(W.sharedConfigMap[s.sharedNodeState], s.unknownState, s.knownState)

\* C22, as claimed: in a validation build the NodeState constructor, given
\* a size, ends in an error when the size differs from the one recomputed
\* from the known and unknown state it is given or when a known StateConfig
\* is not in the shared config map, so the NodeState that a copy constructs
\* never records a wrong size.
C22_ConstructorChecksSize ==
    devBuild =>
        \A st \in StateObjects, node \in Objects :
            stateObjects[st].node # node =>
                LET R == NodeStateGetWritable(World, st, node)
                IN  \/ R.err \in {"stateSizeMismatch", "stateConfigMissing"}
                    \/ /\ R.err = OK
                       /\ R.stateObjects[R.ret].size =
                              RecomputedSize(R, R.stateObjects[R.ret])

\* the classes other than the root's that the editor has not registered
\* under their type
MisregisteredKlasses ==
    {k \in Klasses \ {"RootNode"} : getRegisteredNode(getType(k)) # k}

\* C23, as claimed: getRegisteredNodeOrThrow ends in an error for a type
\* that is not registered, and with an editor active the construction of a
\* node other than the root whose type is not registered, or is registered
\* to another class, ends in an error.
C23_RegistryErrors ==
    /\ \A type \in NodeTypes :
           getRegisteredNode(type) = NULL =>
               getRegisteredNodeOrThrow(World, type).err # OK
    /\ activeEditor # NULL =>
           \A klass \in MisregisteredKlasses, keyArg \in ExplicitKeys \cup {NULL} :
               construct(World, klass, keyArg, "").err # OK

\* the selection of world R holds no cached node list
CacheCleared(R) == R.selection.isNull \/ R.selection.cachedNodes = NULL

\* C24: after every getWritable() that returns, with or without a clone,
\* and so after every $getWritableNodeState and $updateStateFromJSON that
\* returns, the cached node list of the active selection is null.
C24_CacheInvalidated ==
    \A node \in Objects :
        /\ LET R == getWritable(World, node)
           IN  R.err = OK => CacheCleared(R)
        /\ LET R == getWritableNodeState(World, node)
           IN  R.err = OK => CacheCleared(R)
        /\ \A serialized \in Envelopes :
               LET R == updateStateFromJSON(World, node, serialized)
               IN  R.err = OK => CacheCleared(R)

\* C24 witness: the selection holds a cached node list and getWritable()
\* returns for a node that needs no clone and for one that is cloned.
C24_Witness ==
    /\ activeEditorState = "pending"
    /\ ~selection.isNull
    /\ selection.cachedNodes # NULL
    /\ \E node \in Objects :
           /\ objects[node].key \in cloneNotNeeded
           /\ getWritable(World, node).err = OK
    /\ \E node \in Objects :
           /\ objects[node].key \notin cloneNotNeeded
           /\ getWritable(World, node).err = OK

\* the registry's default clone of node, then the post-clone hook
DefaultCloned(node) ==
    Then(clone(World, node), LAMBDA a : afterCloneFrom(a, a.ret, node))

\* C25: the node that the default clone and the post-clone hook produce
\* from an original has the original's key, parent, prev, next and the same
\* NodeState; producing it allocates no key and leaves the NodeMap,
\* dirtyElements, dirtyLeaves and cloneNotNeeded as they were.
C25_DefaultClone ==
    \A node \in NodesOf({"ParagraphNode"}) :
        LET R == DefaultCloned(node)
        IN  /\ R.keyCounter = keyCounter
            /\ R.nodeMap = nodeMap
            /\ R.dirtyElements = dirtyElements
            /\ R.dirtyLeaves = dirtyLeaves
            /\ R.cloneNotNeeded = cloneNotNeeded
            /\ activeEditorState = "pending" => R.err = OK
            /\ R.err = OK =>
                   /\ R.ret # node
                   /\ R.objects[R.ret].klass = "ParagraphNode"
                   /\ R.objects[R.ret].key = objects[node].key
                   /\ R.objects[R.ret].parent = objects[node].parent
                   /\ R.objects[R.ret].prev = objects[node].prev
                   /\ R.objects[R.ret].next = objects[node].next
                   /\ R.objects[R.ret].state = objects[node].state

\* C25 witness: an element that hangs under the root, has a next sibling
\* and carries a NodeState is cloned by the default clone.
C25_Witness ==
    /\ activeEditorState = "pending"
    /\ \E node \in NodesOf({"ParagraphNode"}) :
           /\ objects[node].parent = "root"
           /\ objects[node].next # NULL
           /\ objects[node].state # 0
           /\ DefaultCloned(node).err = OK

\* the latest nodes that getWritable() would clone
CloneNeeded ==
    {n \in Objects :
        /\ objects[n].key \in DOMAIN nodeMap
        /\ nodeMap[objects[n].key] = n
        /\ objects[n].key \notin cloneNotNeeded}

\* C28, as claimed: the clone that getWritable() installs has, besides the
\* key, the links and the NodeState, the same variant fields as the latest
\* node: the text of a text node, the first child, last child and child
\* count of an element or the root.
C28_StructuralClone ==
    (activeEditorState = "pending" /\ ~isReadOnlyMode) =>
        \A n \in CloneNeeded :
            LET R == getWritable(World, n)
            IN  R.err = OK =>
                    /\ R.nodeMap[objects[n].key] = R.ret
                    /\ R.objects[R.ret].text = objects[n].text
                    /\ R.objects[R.ret].first = objects[n].first
                    /\ R.objects[R.ret].last = objects[n].last
                    /\ R.objects[R.ret].size = objects[n].size

\* what NodeState.getWritable owes the copy next of the state this, made
\* under the shared config map configMap
CopyOf(configMap, this, next, node) ==
    /\ next.node = node
    /\ next.sharedNodeState = this.sharedNodeState
    /\ \A cfg \in DOMAIN this.knownState :
           cfg \in DOMAIN next.knownState /\ next.knownState[cfg] = this.knownState[cfg]
    /\ \A k \in UnknownKeys(this) :
           IF k \notin DOMAIN configMap
           THEN k \in UnknownKeys(next) /\ next.unknownState.rec[k] = this.unknownState.rec[k]
           ELSE /\ k \notin UnknownKeys(next)
                /\ configMap[k] \in DOMAIN next.knownState
                /\ configMap[k] \notin DOMAIN this.knownState =>
                       next.knownState[configMap[k]] =
                           parse(configMap[k], this.unknownState.rec[k])
    /\ UnknownKeys(next) \subseteq UnknownKeys(this)
    /\ DOMAIN next.knownState =
           (DOMAIN this.knownState) \cup
               {configMap[k] : k \in UnknownKeys(this) \cap DOMAIN configMap}
    /\ next.size = this.size

\* the copies NodeState.getWritable makes in this state: the state copied,
\* the node it is copied for and the world the copy ends in
StateCopies ==
    {<<st, node, NodeStateGetWritable(World, st, node)>> :
        st \in StateObjects, node \in Objects}

\* C26, as claimed: NodeState.getWritable(n) on a state bound to another
\* node returns a new state bound to n with every known entry unchanged,
\* every recognized unknown key that is not yet known parsed into
\* knownState, every recognized unknown key that is already known dropped,
\* every unrecognized key kept with its raw value, and a size that is the
\* original's size and the recomputed count of distinct keys.
C26_StateCopy ==
    \A c \in StateCopies :
        (stateObjects[c[1]].node # c[2] /\ c[3].err = OK) =>
            /\ c[3].ret # c[1]
            /\ CopyOf(sharedConfigMap[stateObjects[c[1]].sharedNodeState],
                      stateObjects[c[1]], c[3].stateObjects[c[3].ret], c[2])
            /\ c[3].stateObjects[c[3].ret].size =
                   RecomputedSize(c[3], c[3].stateObjects[c[3].ret])

\* the objects at hand that are not the version the active NodeMap holds
\* under their key
Outdated ==
    {n \in Objects :
        /\ objects[n].key \in DOMAIN nodeMap
        /\ nodeMap[objects[n].key] # n}

\* object o of world W is what $cloneWithProperties makes of the node latest
\* of this state
IsCloneOf(W, o, latest) ==
    LET C == cloneWithProperties(World, latest)
    IN  /\ C.err = OK
        /\ o = C.ret
        /\ o \notin Objects
        /\ W.objects[o] = C.objects[C.ret]

\* getWritable() on an outdated object: the receiver enters no NodeMap entry
\* and keeps its fields, and what comes back is the latest version, left as
\* it was, or a clone of it that now stands under the key
WritableOfOutdated(node) ==
    LET K == objects[node].key
        latest == nodeMap[K]
        R == getWritable(World, node)
    IN  /\ \A k \in DOMAIN R.nodeMap : R.nodeMap[k] # node
        /\ R.objects[node] = objects[node]
        /\ R.err = OK =>
               /\ R.nodeMap[K] = R.ret
               /\ R.objects[latest] = objects[latest]
               /\ \/ R.ret = latest
                  \/ IsCloneOf(R, R.ret, latest)

\* a step changes a NodeMap entry only to an object made in the step: a
\* node constructed under a key the map did not hold, or a clone of the
\* version the map held under the key
InstallStep ==
    \A k \in DOMAIN nodeMap' :
        (k \notin DOMAIN nodeMap \/ nodeMap'[k] # nodeMap[k]) =>
            /\ nodeMap'[k] \notin Objects
            /\ IF k \in DOMAIN nodeMap
               THEN LET C == cloneWithProperties(World, nodeMap[k])
                    IN  /\ C.err = OK
                        /\ nodeMap'[k] = C.ret
                        /\ objects'[nodeMap'[k]] = C.objects[C.ret]
               ELSE objects'[nodeMap'[k]].key = k

\* C27: getWritable() on an outdated object of key K works on the latest
\* version of K in the active NodeMap: the node returned is the latest
\* version or a clone of it, no field value of the receiver is copied, the
\* receiver is never installed into the NodeMap, and the only objects put
\* into the NodeMap are freshly constructed nodes and clones of the latest
\* version under the same key.
C27_WritableOfLatest ==
    /\ [](\A node \in Outdated : WritableOfOutdated(node))
    /\ [][InstallStep]_vars

\* C27 witness: in an update, getWritable() on an object that is not the
\* version in the NodeMap, and whose parent differs from that version's,
\* succeeds with a new clone.
C27_Witness ==
    /\ activeEditorState = "pending"
    /\ \E node \in Outdated :
           /\ objects[node].parent # objects[nodeMap[objects[node].key]].parent
           /\ getWritable(World, node).err = OK
           /\ getWritable(World, node).ret \notin Objects

\* the step is a node construction that ended in an error
FailedConstruction == result'.op = "construct" /\ result'.err # OK

\* C29, as claimed: a node construction that ends in an error (read-only
\* mode, no active editor, type tag not registered, type tag registered to
\* another class) leaves the active NodeMap, dirtyElements, dirtyLeaves,
\* cloneNotNeeded and the key counter as they were; a failed construction
\* never leaves a node in the NodeMap.
C29_FailedConstructionLeavesNoTrace ==
    [][FailedConstruction =>
           UNCHANGED <<nodeMap, dirtyElements, dirtyLeaves, cloneNotNeeded,
                       keyCounter>>]_vars

\* this state with node n staged in the pending slot (0 stages nothing)
Staged(n) == [World EXCEPT !.pendingNodeToClone = n]

\* C30: the pending-node-to-clone slot is one-shot: reading it returns the
\* staged node and empties it; the key assignment of every construction
\* consumes it, with or without an explicit key; after every clone and every
\* construction, ended normally or with an error, the slot is empty; so a
\* construction without an explicit key takes its key from the allocator and
\* never from a node staged for an earlier clone.
C30_PendingSlotOneShot ==
    /\ pendingNodeToClone = 0
    /\ \A n \in Objects \cup {0} :
           /\ getPendingNodeToClone(Staged(n)).ret = n
           /\ getPendingNodeToClone(Staged(n)).pendingNodeToClone = 0
           /\ \A klass \in Klasses, keyArg \in ExplicitKeys \cup {NULL} :
                  construct(Staged(n), klass, keyArg, "").pendingNodeToClone = 0
    /\ \A node \in Objects : clone(World, node).pendingNodeToClone = 0
    /\ \A klass \in Klasses \ {"RootNode"} :
           LET R == construct(World, klass, NULL, "")
           IN  R.err = OK => R.objects[R.ret].key = KeyString(keyCounter)

\* C30 witness: an element was made writable through the default clone,
\* which staged it, and a construction without a key that follows succeeds.
C30_Witness ==
    /\ Returned("getWritable")
    /\ objects[result.ret].klass = "ParagraphNode"
    /\ \E old \in Objects \ {result.ret} :
           /\ objects[old].key = objects[result.ret].key
           /\ old \in Range(prevNodeMap)
    /\ construct(World, "ParagraphNode", NULL, "").err = OK

\* the step stays inside one update
WithinUpdate == activeEditorState = "pending" /\ activeEditorState' = "pending"

\* every key of dirtyElements stays in it, and an own-dirty key stays
\* own-dirty
DirtyMarksKept ==
    \A k \in DOMAIN dirtyElements :
        /\ k \in DOMAIN dirtyElements'
        /\ dirtyElements[k] => dirtyElements'[k]

\* the element objects whose key dirtyElements records as ancestor-dirty
AncestorDirtyElements ==
    {n \in Objects :
        /\ isElementKlass(objects[n].klass)
        /\ objects[n].key \in DOMAIN dirtyElements
        /\ dirtyElements[objects[n].key] = FALSE}

\* C31: within a transaction the dirty mark of an element only moves
\* upward: no step of an update removes a key from dirtyElements or turns an
\* own-dirty key (true) into an ancestor-dirty one (false), and a
\* getWritable() that succeeds on an element recorded as ancestor-dirty
\* leaves its key own-dirty.
C31_DirtyMarkMovesUp ==
    /\ [][WithinUpdate => DirtyMarksKept]_vars
    /\ [](\A n \in AncestorDirtyElements :
             LET R == getWritable(World, n)
             IN  R.err = OK =>
                     /\ objects[n].key \in DOMAIN R.dirtyElements
                     /\ R.dirtyElements[objects[n].key] = TRUE)

\* C31 witness: in an update, getWritable() succeeds on an element recorded
\* as ancestor-dirty, and on a node whose parent is recorded as own-dirty, so
\* that the upward walk meets an own-dirty key.
C31_Witness ==
    /\ activeEditorState = "pending"
    /\ \E n \in AncestorDirtyElements : getWritable(World, n).err = OK
    /\ \E n \in Objects :
           /\ objects[n].parent \in DOMAIN dirtyElements
           /\ dirtyElements[objects[n].parent] = TRUE
           /\ getWritable(World, n).err = OK

\* the keys of the NodeMap the walk has not recorded yet
Unvisited(map, dirty) == (DOMAIN map) \ (DOMAIN dirty)

\* a step of the walk that goes on visits a key of the NodeMap that
\* dirtyElements did not hold and records it as ancestor-dirty, nothing else
\* changing in dirtyElements: one key fewer is left to visit, and what the
\* walk will have recorded at its end stays the same
WalkVisitsNewKey ==
    (Walking /\ Walking') =>
        /\ ~WalkStops
        /\ result.nextParentKey \in Unvisited(nodeMap, dirtyElements)
        /\ dirtyElements' = Put(dirtyElements, result.nextParentKey, FALSE)
        /\ Cardinality(Unvisited(nodeMap', dirtyElements')) + 1 =
               Cardinality(Unvisited(nodeMap, dirtyElements))
        /\ internalMarkParentElementsAsDirty(
               result'.nextParentKey, nodeMap', objects', dirtyElements') =
           internalMarkParentElementsAsDirty(
               result.nextParentKey, nodeMap, objects, dirtyElements)

\* the walk is left only at null, at a key already in dirtyElements or at a
\* key absent from the NodeMap
WalkLeavesAtStop == (Walking /\ ~Walking') => WalkStops

\* the loop of the walk has been left, or is at a key where it stops
LoopLeft == ~Walking \/ WalkStops

\* C32: dirty propagation always terminates: for any NodeMap, also one
\* whose parent keys form a cycle or name a missing key, the upward walk
\* visits each key at most once (every step visits a key not yet in
\* dirtyElements and records it) and stops at the first key already in
\* dirtyElements, at a key absent from the NodeMap or at a null parent; a
\* walk that has started reaches such a key.
C32_WalkTerminates ==
    /\ [][WalkVisitsNewKey /\ WalkLeavesAtStop]_vars
    /\ (Walking ~> LoopLeft)

\* C32 witness: the walk has gone round a cycle of parent keys: it has come
\* back to a key it recorded, the key of the node getWritable() was called
\* on being among its own ancestors.
C32_Witness ==
    /\ Walking
    /\ result.nextParentKey # NULL
    /\ result.nextParentKey \in DOMAIN dirtyElements
    /\ result.latestKey \in Ancestors(result.latestKey, nodeMap, objects)
    /\ result.latestKey \in DOMAIN dirtyElements
    /\ dirtyElements[result.latestKey] = FALSE

\* the node the active NodeMap holds under key k is an element
ElementKey(k) == k \in DOMAIN nodeMap /\ isElementKlass(objects[nodeMap[k]].klass)

\* the node the active NodeMap holds under key k is a leaf
LeafKey(k) == k \in DOMAIN nodeMap /\ ~isElementKlass(objects[nodeMap[k]].klass)

\* a creation or a getWritable() that ended in world R with node R.ret
\* recorded the node's key in the dirty set of its variant only
RecordedByVariant(R) ==
    LET key == R.objects[R.ret].key
    IN  IF isElementKlass(R.objects[R.ret].klass)
        THEN /\ key \in DOMAIN R.dirtyElements /\ R.dirtyElements[key] = TRUE
             /\ key \in R.dirtyLeaves <=> key \in dirtyLeaves
        ELSE /\ key \in R.dirtyLeaves
             /\ key \in DOMAIN R.dirtyElements <=> key \in DOMAIN dirtyElements

\* C33, as claimed: the dirty sets are partitioned by variant: every key in
\* dirtyLeaves belongs to a non-element node and every own-dirty key in
\* dirtyElements to an element node; creating or getWritable()-ing a leaf
\* never puts its own key into dirtyElements and doing so for an element
\* never puts its key into dirtyLeaves; no key is in both sets.
C33_DirtySetsPartitioned ==
    /\ \A k \in dirtyLeaves : LeafKey(k)
    /\ \A k \in DOMAIN dirtyElements : dirtyElements[k] => ElementKey(k)
    /\ dirtyLeaves \cap DOMAIN dirtyElements = {}
    /\ \A klass \in KeyedKlasses :
           LET R == construct(World, klass, NULL, "")
           IN  R.err = OK => RecordedByVariant(R)
    /\ \A n \in Objects :
           LET R == getWritable(World, n)
           IN  R.err = OK => RecordedByVariant(R)

\* a creation or a getWritable() that ended in world R with node R.ret
\* recorded the node's key as own-dirty in the dirty set of its variant only
RecordedOwnByVariant(R) ==
    LET key == R.objects[R.ret].key
    IN  IF isElementKlass(R.objects[R.ret].klass)
        THEN /\ key \in DOMAIN R.dirtyElements /\ R.dirtyElements[key] = TRUE
             /\ key \in R.dirtyLeaves <=> key \in dirtyLeaves
        ELSE /\ key \in R.dirtyLeaves
             /\ key \in DOMAIN R.dirtyElements => R.dirtyElements[key] = FALSE

\* C33, amended: every key in dirtyLeaves belongs to a non-element node and
\* every own-dirty key in dirtyElements to an element node; creating or
\* getWritable()-ing a leaf never records its own key as own-dirty in
\* dirtyElements and doing so for an element never puts its key into
\* dirtyLeaves; no key is both in dirtyLeaves and own-dirty in dirtyElements
\* (the key of a leaf that a parent key names is recorded as ancestor-dirty
\* as well).
C33_DirtySetsPartitionedOwn ==
    /\ \A k \in dirtyLeaves : LeafKey(k)
    /\ \A k \in DOMAIN dirtyElements : dirtyElements[k] => ElementKey(k)
    /\ \A k \in dirtyLeaves \cap DOMAIN dirtyElements : dirtyElements[k] = FALSE
    /\ \A klass \in KeyedKlasses :
           LET R == construct(World, klass, NULL, "")
           IN  R.err = OK => RecordedOwnByVariant(R)
    /\ \A n \in Objects :
           LET R == getWritable(World, n)
           IN  R.err = OK => RecordedOwnByVariant(R)

\* C33 witness: after a getWritable() of a leaf, dirtyElements holds an
\* own-dirty element and, as ancestor-dirty, the key of a leaf that is in
\* dirtyLeaves too.
C33_Witness ==
    /\ Returned("getWritable")
    /\ ~isElementKlass(objects[result.ret].klass)
    /\ \E k \in DOMAIN dirtyElements : dirtyElements[k] = TRUE
    /\ \E k \in dirtyLeaves \cap DOMAIN dirtyElements : LeafKey(k)

\* the classes whose post-clone hook is LexicalNode.afterCloneFrom
HookedKlasses == Klasses \ {"NoSuperNode"}

\* the worlds after constructor.clone(node) and the post-clone hook, for
\* every node at hand whose clone succeeds: <<node, clone, world>>
HookRuns ==
    {<<n, clone(World, n).ret, afterCloneFrom(clone(World, n), clone(World, n).ret, n)>> :
        n \in {m \in Objects : /\ objects[m].klass \in HookedKlasses
                               /\ clone(World, m).err = OK}}

\* the clone has the key of the node it was made from
SameKey(h) == h[3].objects[h[2]].key = objects[h[1]].key

\* the clone took the previous node's links and its very NodeState object
TookLinksAndState(h) ==
    /\ h[3].objects[h[2]].parent = objects[h[1]].parent
    /\ h[3].objects[h[2]].prev = objects[h[1]].prev
    /\ h[3].objects[h[2]].next = objects[h[1]].next
    /\ h[3].objects[h[2]].state = objects[h[1]].state

\* the clone took none of the links
TookNoLinks(h) ==
    /\ h[3].objects[h[2]].parent = NULL
    /\ h[3].objects[h[2]].prev = NULL
    /\ h[3].objects[h[2]].next = NULL

\* the clone has a NodeState of its own exactly if the previous node has
\* one: a new object, bound to the clone
OwnState(h) ==
    IF objects[h[1]].state = 0 THEN h[3].objects[h[2]].state = 0
    ELSE /\ h[3].objects[h[2]].state \notin StateObjects \cup {0}
         /\ h[3].stateObjects[h[3].objects[h[2]].state].node = h[2]
         /\ h[3].stateObjects[objects[h[1]].state] = stateObjects[objects[h[1]].state]

\* C34, as claimed: the post-clone hook depends on the key: with the key of
\* the previous node the clone takes its parent, prev, next and the very
\* same NodeState object; with another key it takes none of the links and
\* gets a NodeState of its own, bound to it, with the same known values,
\* unknown keys and size.
C34_PostCloneHook ==
    \A h \in HookRuns :
        h[3].err = OK =>
            IF SameKey(h) THEN TookLinksAndState(h)
            ELSE /\ TookNoLinks(h)
                 /\ OwnState(h)
                 /\ objects[h[1]].state # 0 =>
                        LET this == stateObjects[objects[h[1]].state]
                            next == h[3].stateObjects[h[3].objects[h[2]].state]
                        IN  /\ next.knownState = this.knownState
                            /\ next.unknownState = this.unknownState
                            /\ next.size = this.size

\* C34, amended: the post-clone hook depends on the key: with the key of
\* the previous node the clone takes its parent, prev, next and the very
\* same NodeState object; with another key it takes none of the links and
\* gets a NodeState of its own, bound to it, with the same known values and
\* size, in which every unknown key the shared config map recognizes is
\* parsed into knownState (or dropped when its config is known already) and
\* every other unknown key is kept.
C34_PostCloneHookPromotes ==
    \A h \in HookRuns :
        h[3].err = OK =>
            IF SameKey(h) THEN TookLinksAndState(h)
            ELSE /\ TookNoLinks(h)
                 /\ OwnState(h)
                 /\ objects[h[1]].state # 0 =>
                        LET this == stateObjects[objects[h[1]].state]
                        IN  CopyOf(sharedConfigMap[this.sharedNodeState], this,
                                   h[3].stateObjects[h[3].objects[h[2]].state], h[2])

\* C34 witness: a node that hangs under the root and carries a NodeState
\* with an unknown key that the shared config map has come to recognize is
\* cloned into a node of another key.
C34_Witness ==
    \E h \in HookRuns :
        /\ h[3].err = OK
        /\ ~SameKey(h)
        /\ objects[h[1]].parent = "root"
        /\ objects[h[1]].state # 0
        /\ LET this == stateObjects[objects[h[1]].state]
           IN  /\ this.knownState = EmptyMap
               /\ UnknownKeys(this) \cap DOMAIN sharedConfigMap[this.sharedNodeState] # {}

(***************************************************************************)
(* C35: $updateStateFromJSON reads each flat-declared state key from the   *)
(* top level of the serialized node (the top-level value wins over a key   *)
(* of the same name under NODE_STATE_KEY), writes neither into the         *)
(* serialized node nor into the record under NODE_STATE_KEY and keeps no   *)
(* reference to them, so that later writes to the node's state change      *)
(* neither; and when there is no record under NODE_STATE_KEY, no flat key  *)
(* at the top level and no state on the node, no NodeState is created.     *)
(***************************************************************************)
SerializedNodeObjects(sts) ==
    {i \in 1..Len(sts) : sts[i].klass = "SerializedNode"}

NodeStateObjects(sts) == {i \in 1..Len(sts) : sts[i].klass = "NodeState"}

\* no NodeState refers to the serialized node or the record under it
NoAlias(sts) ==
    \A s \in NodeStateObjects(sts) : sts[s].unknownState \notin HeldRecords(sts)

\* the heap sts holds the caller's records as they are now
RecordsKeptIn(sts) ==
    \A i \in HeldRecords(stateObjects) : i <= Len(sts) /\ sts[i] = stateObjects[i]

\* the state of the node R returns has the top-level value of every flat
\* key of the serialized node
TopLevelWins(R, serialized) ==
    LET type == R.objects[R.ret].type
        st == R.objects[R.ret].state
        configMap == R.sharedConfigMap[type]
        flat == stateObjects[serialized].rec
    IN  \A k \in flatKeys[type] \cap DOMAIN flat :
            /\ st # 0
            /\ LET s == R.stateObjects[st]
               IN  IF k \in DOMAIN configMap
                   THEN /\ configMap[k] \in DOMAIN s.knownState
                        /\ s.knownState[configMap[k]] = parse(configMap[k], flat[k])
                   ELSE /\ s.unknownState # 0
                        /\ k \in DOMAIN R.stateObjects[s.unknownState].rec
                        /\ R.stateObjects[s.unknownState].rec[k] = flat[k]

\* nothing to import and no state on the node
NothingToImport(node, serialized) ==
    /\ stateObjects[serialized].state = 0
    /\ flatKeys[objects[node].type] \cap DOMAIN stateObjects[serialized].rec = {}
    /\ objects[node].key \in DOMAIN nodeMap
    /\ objects[nodeMap[objects[node].key]].state = 0

ImportKeepsRecords ==
    \A node \in NodesOf({"TextNode"}), serialized \in SerializedNodeObjects(stateObjects) :
        LET R == updateStateFromJSONByRef(World, node, serialized)
        IN  R.err = OK =>
                /\ TopLevelWins(R, serialized)
                /\ RecordsKeptIn(R.stateObjects)
                /\ NoAlias(R.stateObjects)
                /\ NothingToImport(node, serialized) =>
                       /\ R.objects[R.ret].state = 0
                       /\ NodeStateObjects(R.stateObjects) = NodeStateObjects(stateObjects)

C35_ImportLeavesSerializedNode ==
    /\ [](ImportKeepsRecords /\ NoAlias(stateObjects))
    /\ [][RecordsKeptIn(stateObjects')]_vars

\* C35, witness: the node took 'lang' from the top level and 'x'
\* from the record under NODE_STATE_KEY, which also holds 'lang', and its
\* state was written after that
C35_Witness ==
    /\ Returned("updateFromUnknown")
    /\ \E e \in SerializedNodeObjects(stateObjects) :
           /\ stateObjects[e].state # 0
           /\ "lang" \in DOMAIN stateObjects[e].rec
           /\ "lang" \in DOMAIN stateObjects[stateObjects[e].state].rec
           /\ \E s \in NodeStateObjects(stateObjects) :
                  /\ "cfgLang" \in DOMAIN stateObjects[s].knownState
                  /\ stateObjects[s].knownState["cfgLang"] = stateObjects[e].rec["lang"]
                  /\ stateObjects[s].unknownState # 0
                  /\ stateObjects[stateObjects[s].unknownState].rec =
                         [k \in {"x"} |-> "z"]

====
